---- MODULE Spec2Model ----
(***************************************************************************)
(* Model of the chat front end: the application store (store/index.ts),    *)
(* the thread list (ThreadList.tsx) and the conversation-turn orchestrator *)
(* (ChatInterface.tsx) with the gateway calls of services/api.ts.          *)
(*                                                                         *)
(* Text (message bodies, user input, thread names) is a sequence of        *)
(* one-character strings, so that trim, split, slice, join and startsWith  *)
(* are computed as JavaScript computes them.                               *)
(***************************************************************************)
EXTENDS Integers, Sequences, FiniteSets, TLC

VARIABLES
    configurations,      \* store: Configuration[]
    activeConfiguration, \* store: Configuration | null
    threads,             \* store: Thread[]
    activeThread,        \* store: Thread | null
    messages,            \* store: Message[]
    isLoading,           \* store: boolean
    input,               \* ChatInterface useState('')
    error,               \* ChatInterface useState<string | null>(null)
    isCreating,          \* ThreadList useState(false)
    listError,           \* ThreadList useState<string | null>(null)
    creation,            \* the handleCreateThread call awaiting createThread, or NULL
    turns,               \* the handleSendMessage calls made so far (their closures)
    webhooks,            \* the sendWebhook calls made so far
    now,                 \* Date.now()
    created,             \* number of threads created so far; the provider
                         \* issues a fresh identifier at each creation
    run,                 \* the provider's run: the status runAssistant returns
                         \* and the statuses successive reads return
    activeTab,           \* App useState('chat')
    submitResult         \* history: what the last handleSendMessage call did

storeVars == <<configurations, activeConfiguration, threads, activeThread,
               messages, isLoading>>
chatVars  == <<input, error>>
listVars  == <<isCreating, listError, creation>>
envVars   == <<now, created, run>>
tabVars   == <<activeTab>>
vars == <<configurations, activeConfiguration, threads, activeThread, messages,
          isLoading, input, error, isCreating, listError, creation, turns,
          webhooks, now, created, run, activeTab, submitResult>>

(***************************************************************************)
(* Bounds of the model.                                                    *)
(***************************************************************************)
MaxTurns == 2
MaxThreads == 2
MaxClock == 1
MaxRunLen == 1
MaxPrior == 12
MaxListLen == 2
MaxConfigs == 2
MaxScript == 4
MaxTime == 2
MaxInputLen == 6
MaxImport == 2
MaxWordsLen == 9

\* const maxPolls = 60
maxPolls == 60
\* conversationHistory.slice(-10)
HistoryLimit == 10
\* userInput.split(' ').slice(0, 4)
NameWords == 4

\* null, where the value is otherwise a record
NULL == [null |-> TRUE]
\* null, where the value is otherwise a string (an error message)
NoError == "(null)"
\* An optional text: None when undefined, Some(text) otherwise
None == <<>>
Some(v) == <<v>>

Min(a, b) == IF a < b THEN a ELSE b
Max(a, b) == IF a > b THEN a ELSE b

(***************************************************************************)
(* JavaScript string and array primitives.                                 *)
(***************************************************************************)
Whitespace == {" ", "\t", "\n"}

\* Array.prototype.slice(start, end) on 0-based indices; a negative index
\* counts from the end.
Slice(s, start, end) ==
    LET n == Len(s)
        from == IF start < 0 THEN Max(n + start, 0) ELSE Min(start, n)
        to == IF end < 0 THEN Max(n + end, 0) ELSE Min(end, n)
    IN  IF from >= to THEN <<>> ELSE SubSeq(s, from + 1, to)

\* Array.prototype.slice(start)
SliceFrom(s, start) == Slice(s, start, Len(s))

RECURSIVE TrimStart(_)
TrimStart(s) ==
    IF s # <<>> /\ Head(s) \in Whitespace THEN TrimStart(Tail(s)) ELSE s

RECURSIVE TrimEnd(_)
TrimEnd(s) ==
    IF s # <<>> /\ s[Len(s)] \in Whitespace
    THEN TrimEnd(SubSeq(s, 1, Len(s) - 1)) ELSE s

\* String.prototype.trim()
Trim(s) == TrimEnd(TrimStart(s))

\* String.prototype.split(sep) for a one-character separator
RECURSIVE SplitAcc(_, _, _)
SplitAcc(s, sep, cur) ==
    IF s = <<>> THEN <<cur>>
    ELSE IF Head(s) = sep THEN <<cur>> \o SplitAcc(Tail(s), sep, <<>>)
    ELSE SplitAcc(Tail(s), sep, Append(cur, Head(s)))

Split(s, sep) == SplitAcc(s, sep, <<>>)

\* Array.prototype.join(sep)
RECURSIVE Join(_, _)
Join(parts, sep) ==
    IF parts = <<>> THEN <<>>
    ELSE IF Len(parts) = 1 THEN parts[1]
    ELSE parts[1] \o sep \o Join(Tail(parts), sep)

\* String.prototype.startsWith(prefix)
StartsWith(s, prefix) ==
    /\ Len(s) >= Len(prefix)
    /\ SubSeq(s, 1, Len(prefix)) = prefix

Digit == <<"0", "1", "2", "3", "4", "5", "6", "7", "8", "9">>

\* Number to decimal text, as a template literal formats it
RECURSIVE DecStr(_)
DecStr(n) ==
    IF n < 10 THEN <<Digit[n + 1]>>
    ELSE DecStr(n \div 10) \o <<Digit[(n % 10) + 1]>>

(***************************************************************************)
(* Data: types/index.ts                                                    *)
(***************************************************************************)
RunStatus == {"queued", "in_progress", "completed", "requires_action",
              "failed", "cancelled", "expired"}

\* The statuses that end the polling loop
TerminalStatus == {"completed", "failed", "cancelled"}

\* Thread identifiers: created by the provider, or `local-${Date.now()}`
RemoteId(k) == [kind |-> "remote", n |-> k]
LocalId(t) == [kind |-> "local", n |-> t]

\* 'Thread '
ThreadPrefix == <<"T", "h", "r", "e", "a", "d", " ">>

\* `Thread ${threads.length + 1}`
DefaultName(count) == ThreadPrefix \o DecStr(count + 1)

\* '...'
Ellipsis == <<".", ".", ".">>

(***************************************************************************)
(* The store: store/index.ts.  Each store action is an operator from the   *)
(* store's state to its next state, so that a handler which calls several  *)
(* of them in one synchronous stretch is one step.                         *)
(***************************************************************************)
Store ==
    [configurations |-> configurations,
     activeConfiguration |-> activeConfiguration, threads |-> threads,
     activeThread |-> activeThread, messages |-> messages,
     isLoading |-> isLoading]

SetStore(st) ==
    /\ configurations' = st.configurations
    /\ activeConfiguration' = st.activeConfiguration
    /\ threads' = st.threads
    /\ activeThread' = st.activeThread
    /\ messages' = st.messages
    /\ isLoading' = st.isLoading

\* `time` is what Date.now() returns
addConfiguration(st, config, time) ==
    LET newConfig == [config EXCEPT !.id = DecStr(time)]
    IN  [st EXCEPT
            !.configurations = Append(@, newConfig),
            !.activeConfiguration = IF config.isDefault THEN newConfig ELSE @]

updateConfiguration(st, config) ==
    [st EXCEPT
        !.configurations = [k \in DOMAIN @ |->
                               IF @[k].id = config.id THEN config ELSE @[k]],
        !.activeConfiguration = IF @ # NULL /\ @.id = config.id
                                THEN config ELSE @]

deleteConfiguration(st, id) ==
    [st EXCEPT
        !.configurations = SelectSeq(@, LAMBDA c : c.id # id),
        !.activeConfiguration = IF @ # NULL /\ @.id = id THEN NULL ELSE @]

setActiveConfiguration(st, config) == [st EXCEPT !.activeConfiguration = config]

addThread(st, thread) ==
    [st EXCEPT !.threads = Append(@, thread), !.activeThread = thread]

updateThread(st, thread) ==
    [st EXCEPT
        !.threads = [i \in DOMAIN @ |->
                        IF @[i].threadId = thread.threadId THEN thread ELSE @[i]],
        !.activeThread = IF @ # NULL /\ @.threadId = thread.threadId
                         THEN thread ELSE @]

RECURSIVE WithoutThread(_, _)
WithoutThread(s, threadId) ==
    IF s = <<>> THEN <<>>
    ELSE IF Head(s).threadId # threadId
         THEN <<Head(s)>> \o WithoutThread(Tail(s), threadId)
         ELSE WithoutThread(Tail(s), threadId)

deleteThread(st, threadId) ==
    [st EXCEPT
        !.threads = WithoutThread(@, threadId),
        !.activeThread = IF @ # NULL /\ @.threadId = threadId THEN NULL ELSE @,
        !.messages = WithoutThread(@, threadId)]

setActiveThread(st, thread) == [st EXCEPT !.activeThread = thread]

setLoading(st, flag) == [st EXCEPT !.isLoading = flag]

\* threads.find((t) => t.threadId === message.threadId)
FindThread(ths, threadId) ==
    LET hits == {i \in DOMAIN ths : ths[i].threadId = threadId}
    IN  IF hits = {} THEN NULL
        ELSE ths[CHOOSE i \in hits : \A j \in hits : i <= j]

\* addMessage that puts the new message first
addMessageFirst(st, message, time) ==
    LET newMessage == [message EXCEPT !.id = DecStr(time)]
        st1 == [st EXCEPT !.messages = <<newMessage>> \o @]
        thread == FindThread(st1.threads, message.threadId)
    IN  IF thread # NULL
        THEN updateThread(st1, [thread EXCEPT !.lastUpdated = time])
        ELSE st1

addMessage(st, message, time) ==
    LET newMessage == [message EXCEPT !.id = DecStr(time)]
        st1 == [st EXCEPT !.messages = Append(@, newMessage)]
        thread == FindThread(st1.threads, message.threadId)
    IN  IF thread # NULL
        THEN updateThread(st1, [thread EXCEPT !.lastUpdated = time])
        ELSE st1

RECURSIVE OfThread(_, _)
OfThread(s, threadId) ==
    IF s = <<>> THEN <<>>
    ELSE IF Head(s).threadId = threadId
         THEN <<Head(s)>> \o OfThread(Tail(s), threadId)
         ELSE OfThread(Tail(s), threadId)

getThreadMessages(st, threadId) == OfThread(st.messages, threadId)

\* NewMessage with the threadId of the thread that is active in the store
\* when the message is built
NewMessageOnActive(threadId, content, role, time, turn) ==
    [id |-> <<>>,
     threadId |-> IF activeThread # NULL THEN activeThread.threadId ELSE threadId,
     content |-> content, role |-> role,
     timestamp |-> time, attachments |-> <<>>, turn |-> turn]

\* A Message as the orchestrator builds it; `turn` is a history tag naming
\* the handleSendMessage call that built it.
NewMessage(threadId, content, role, time, turn) ==
    [id |-> <<>>, threadId |-> threadId, content |-> content, role |-> role,
     timestamp |-> time, attachments |-> <<>>, turn |-> turn]

(***************************************************************************)
(* The gateway: services/api.ts.  A failed HTTP call is named by its       *)
(* status code, 0 standing for a failure without a response.               *)
(***************************************************************************)
\* error.message of the axios error that checkRunStatus, getMessages and
\* createCompletion re-throw unchanged
AxiosMessage(f) ==
    CASE f = 0 -> "Network Error"
      [] f = 400 -> "Request failed with status code 400"
      [] f = 401 -> "Request failed with status code 401"
      [] f = 404 -> "Request failed with status code 404"
      [] f = 429 -> "Request failed with status code 429"
      [] OTHER -> "Request failed with status code 500"

sendMessageError(f) ==
    CASE f = 404 -> "Thread not found. It may have expired or been deleted."
      [] f = 401 -> "Authentication failed. Please check your API key."
      [] f = 400 -> "Bad request: Invalid request format"
      [] OTHER -> "Failed to send message. Please try again."

runAssistantError(f) ==
    CASE f = 404 -> "Thread or assistant not found."
      [] f = 400 -> "Bad request: Invalid request"
      [] OTHER -> "Failed to run assistant. Please try again."

createThreadError(f) ==
    CASE f = 401 -> "Authentication failed. Please check your API key."
      [] f = 429 -> "Rate limit exceeded. Please try again later."
      [] f = 404 -> "Assistants API not available for your account."
      [] f = 500 -> "OpenAI server error. Please try again later."
      [] OTHER -> "Failed to create thread. Please try again."

\* What the awaited call of a turn throws when the HTTP call fails
GatewayError(pc, f) ==
    CASE pc = "sendMessage" -> sendMessageError(f)
      [] pc = "runAssistant" -> runAssistantError(f)
      [] OTHER -> AxiosMessage(f)

\* sendWebhook without its try/catch: a failed POST throws
sendWebhookUncaught(ok) == IF ok THEN "true" ELSE "throw"

\* sendWebhook: what the caller gets when the POST succeeds (ok) or not
sendWebhook(ok) == IF ok THEN "true" ELSE "false"

(***************************************************************************)
(* The orchestrator: components/ChatInterface.tsx                          *)
(***************************************************************************)
\* JavaScript truthiness of a string
Truthy(str) == str # ""

\* activeConfiguration.useAssistantApi && activeConfiguration.assistantId
UsesAssistant(cfg) == cfg.useAssistantApi /\ Truthy(cfg.assistantId)

\* The guard of handleSendMessage without the trim
ValidatesNoTrim ==
    /\ input # <<>>
    /\ activeThread # NULL
    /\ activeConfiguration # NULL

\* if (!input.trim() || !activeThread || !activeConfiguration) return;
Validates ==
    /\ Trim(input) # <<>>
    /\ activeThread # NULL
    /\ activeConfiguration # NULL

\* DirectHistory with slice(10) for slice(-10)
DirectHistoryFromTenth(threadMessages, userInput) ==
    LET conversationHistory ==
            [i \in 1..Len(threadMessages) |->
                [role |-> threadMessages[i].role,
                 content |-> threadMessages[i].content]]
        limitedHistory == SliceFrom(conversationHistory, HistoryLimit)
    IN  limitedHistory \o <<[role |-> "user", content |-> userInput]>>

\* threadMessages.map(...), .slice(-10), .concat([{role: 'user', ...}])
DirectHistory(threadMessages, userInput) ==
    LET conversationHistory ==
            [i \in 1..Len(threadMessages) |->
                [role |-> threadMessages[i].role,
                 content |-> threadMessages[i].content]]
        limitedHistory == SliceFrom(conversationHistory, 0 - HistoryLimit)
    IN  limitedHistory \o <<[role |-> "user", content |-> userInput]>>

\* userInput.split(' ').slice(0, 4).join(' '), then `${firstFewWords}...`
AutoName(userInput) ==
    Join(Slice(Split(userInput, " "), 0, NameWords), <<" ">>) \o Ellipsis

\* activeThread.name.startsWith('Thread ')
HasDefaultName(thread) == StartsWith(thread.name, ThreadPrefix)

\* `thread` is the activeThread of the handler's closure
updateThreadNameIfNeeded(st, thread, userInput) ==
    IF HasDefaultName(thread)
    THEN updateThread(st, [thread EXCEPT !.name = AutoName(userInput)])
    ELSE st

\* The closure of one handleSendMessage call and where it stands.
\* nPolls, nAssistant, nRenames, nWebhooks, renamedFrom, outcome,
\* threadDeleted, calls (the gateway calls issued, each with the
\* configuration passed to it and the time it was issued at), listed (the list getMessages returned),
\* completion (the choices createCompletion returned, once it has),
\* failedAt and failureCode (the gateway call that failed and its HTTP
\* status), leftAt and leftCalls (where the turn stood, and how many calls it
\* had issued, when the user left the chat tab) are history fields.
NewTurn(thread, cfg, userInput, pc, history) ==
    [thread |-> thread, config |-> cfg, userInput |-> userInput, pc |-> pc,
     history |-> history, runStatus |-> "none", pollCount |-> 0,
     outcome |-> "none", errorMsg |-> "", nPolls |-> 0, nAssistant |-> 0,
     nRenames |-> 0, nWebhooks |-> 0, renamedFrom |-> None,
     threadDeleted |-> FALSE, calls |-> <<>>, listed |-> <<>>,
     failedAt |-> "none", failureCode |-> 0 - 1, leftAt |-> "none",
     leftCalls |-> 0, completion |-> None]

\* The configuration in the store at the time of the call
LiveConfig(rec) == activeConfiguration

\* The activeConfiguration a gateway call of the turn is given: the one of
\* the handler's closure
ClosureConfig(rec) == rec.config

\* The turn calls the gateway operation op and awaits it; `at` is the time of
\* the call
Issue(rec, op) ==
    [rec EXCEPT !.pc = op,
                !.calls = Append(@, [op |-> op, config |-> ClosureConfig(rec),
                                     at |-> now])]

InFlight(i) == turns[i].pc # "done"

\* handleSendMessage up to its first await
handleSendMessage ==
    IF ~Validates
    THEN /\ submitResult' = "ignored"
         /\ UNCHANGED <<storeVars, chatVars, listVars, turns, webhooks, envVars, tabVars>>
    ELSE LET id == Len(turns) + 1
             userMessage ==
                 NewMessage(activeThread.threadId, input, "user", now, id)
             threadMessages == getThreadMessages(Store, activeThread.threadId)
             assisted == UsesAssistant(activeConfiguration)
             path == IF assisted THEN "sendMessage" ELSE "createCompletion"
         IN  /\ SetStore(addMessage(setLoading(Store, TRUE), userMessage, now))
             /\ error' = NoError
             /\ input' = <<>>
             /\ turns' = Append(turns,
                    Issue(NewTurn(activeThread, activeConfiguration, input, path,
                                  IF assisted THEN <<>>
                                  ELSE DirectHistory(threadMessages, input)),
                          path))
             /\ submitResult' = "started"
             /\ UNCHANGED <<listVars, webhooks, envVars, tabVars>>

\* A catch that also takes the turn's user message back out of the store
ThrowRetract(i, rec, msg, outcome) ==
    /\ turns' = [turns EXCEPT ![i] =
                    [rec EXCEPT !.pc = "done", !.outcome = outcome,
                                !.errorMsg = msg]]
    /\ error' = IF msg # "" THEN msg
                ELSE "Failed to send message. Please try again."
    /\ SetStore(setLoading(
            [Store EXCEPT !.messages =
                SelectSeq(@, LAMBDA m : ~(m.turn = i /\ m.role = "user"))],
            FALSE))
    /\ UNCHANGED <<input, listVars, webhooks, envVars, tabVars, submitResult>>

\* A catch that dispatches the webhook of the failed turn
ThrowNotify(i, rec, msg, outcome) ==
    /\ turns' = [turns EXCEPT ![i] =
                    [rec EXCEPT !.pc = "done", !.outcome = outcome,
                                !.errorMsg = msg]]
    /\ error' = IF msg # "" THEN msg
                ELSE "Failed to send message. Please try again."
    /\ SetStore(setLoading(Store, FALSE))
    /\ webhooks' = Append(webhooks,
            [turn |-> i, url |-> rec.config.webhookURL,
             payload |-> [userName |-> "User", prompt |-> rec.userInput,
                          timestamp |-> now, model |-> rec.config.model,
                          threadId |-> rec.thread.threadId],
             result |-> "pending"])
    /\ UNCHANGED <<input, listVars, envVars, tabVars, submitResult>>

\* The catch of handleSendMessage without the finally block
ThrowKeepLoading(i, rec, msg, outcome) ==
    /\ turns' = [turns EXCEPT ![i] =
                    [rec EXCEPT !.pc = "done", !.outcome = outcome,
                                !.errorMsg = msg]]
    /\ error' = IF msg # "" THEN msg
                ELSE "Failed to send message. Please try again."
    /\ UNCHANGED <<storeVars, input, listVars, webhooks, envVars, tabVars,
                   submitResult>>

\* catch in handleSendMessage: setError(error.message || '...'), then
\* finally: setLoading(false)
Throw(i, rec, msg, outcome) ==
    /\ turns' = [turns EXCEPT ![i] =
                    [rec EXCEPT !.pc = "done", !.outcome = outcome,
                                !.errorMsg = msg]]
    /\ error' = IF msg # "" THEN msg
                ELSE "Failed to send message. Please try again."
    /\ SetStore(setLoading(Store, FALSE))
    /\ UNCHANGED <<input, listVars, webhooks, envVars, tabVars, submitResult>>

\* Succeed with the reply appended twice
SucceedTwice(i, rec, content) ==
    LET reply == NewMessage(rec.thread.threadId, content, "assistant", now, i)
        st1 == addMessage(addMessage(Store, reply, now), reply, now)
        st2 == updateThreadNameIfNeeded(st1, rec.thread, rec.userInput)
    IN  /\ SetStore(setLoading(st2, FALSE))
        /\ turns' = [turns EXCEPT ![i] =
                        [rec EXCEPT !.pc = "done", !.outcome = "Completed",
                                    !.nAssistant = @ + 2]]
        /\ UNCHANGED <<chatVars, listVars, webhooks, envVars, tabVars, submitResult>>

\* Succeed with a webhook dispatched whether or not a target is configured
SucceedNotifiesAlways(i, rec, content) ==
    LET reply == NewMessage(rec.thread.threadId, content, "assistant", now, i)
        st1 == addMessage(Store, reply, now)
        st2 == updateThreadNameIfNeeded(st1, rec.thread, rec.userInput)
    IN  /\ SetStore(setLoading(st2, FALSE))
        /\ webhooks' =
             Append(webhooks,
                    [turn |-> i, url |-> rec.config.webhookURL,
                     payload |-> [userName |-> "User", prompt |-> rec.userInput,
                                  timestamp |-> now, model |-> rec.config.model,
                                  threadId |-> rec.thread.threadId],
                     result |-> "pending"])
        /\ turns' = [turns EXCEPT ![i] =
                        [rec EXCEPT !.pc = "done", !.outcome = "Completed",
                                    !.nAssistant = @ + 1, !.nWebhooks = @ + 1]]
        /\ UNCHANGED <<chatVars, listVars, envVars, tabVars, submitResult>>

\* Succeed with the reply stamped with the time the turn began: the time of
\* its first gateway call
SucceedStampedAtStart(i, rec, content) ==
    LET reply == NewMessage(rec.thread.threadId, content, "assistant",
                            rec.calls[1].at, i)
        st1 == addMessage(Store, reply, now)
        st2 == updateThreadNameIfNeeded(st1, rec.thread, rec.userInput)
    IN  /\ SetStore(setLoading(st2, FALSE))
        /\ turns' = [turns EXCEPT ![i] =
                        [rec EXCEPT !.pc = "done", !.outcome = "Completed",
                                    !.nAssistant = @ + 1]]
        /\ UNCHANGED <<chatVars, listVars, webhooks, envVars, tabVars, submitResult>>

\* The reply was extracted: addMessage, updateThreadNameIfNeeded,
\* sendWebhookIfConfigured, then finally: setLoading(false)
Succeed(i, rec, content) ==
    LET reply == NewMessage(rec.thread.threadId, content, "assistant", now, i)
        st1 == addMessage(Store, reply, now)
        stored == FindThread(st1.threads, rec.thread.threadId)
        st2 == updateThreadNameIfNeeded(st1, rec.thread, rec.userInput)
        naming == HasDefaultName(rec.thread)
        renamed == stored # NULL /\ st2 # st1
        hook == Truthy(rec.config.webhookURL)
    IN  /\ SetStore(setLoading(st2, FALSE))
        /\ webhooks' =
             IF hook
             THEN Append(webhooks,
                    [turn |-> i, url |-> rec.config.webhookURL,
                     payload |-> [userName |-> "User", prompt |-> rec.userInput,
                                  timestamp |-> now, model |-> rec.config.model,
                                  threadId |-> rec.thread.threadId],
                     result |-> "pending"])
             ELSE webhooks
        /\ turns' = [turns EXCEPT ![i] =
                        [rec EXCEPT !.pc = "done", !.outcome = "Completed",
                                    !.nAssistant = @ + 1,
                                    !.nRenames = @ + (IF naming THEN 1 ELSE 0),
                                    !.renamedFrom = IF renamed THEN Some(stored.name) ELSE @,
                                    !.nWebhooks = @ + (IF hook THEN 1 ELSE 0)]]
        /\ UNCHANGED <<chatVars, listVars, envVars, tabVars, submitResult>>

\* One entry of the list getMessages returns: a role and content segments;
\* a segment is a type and its optional text value.
TextPart(value) == [type |-> "text", value |-> Some(value)]
ImagePart == [type |-> "image_file", value |-> None]
Entry(role, parts) == [role |-> role, content |-> parts]

\* The first entry of the list, whoever wrote it
FirstEntry(data) == IF data = <<>> THEN NULL ELSE data[1]

\* messagesResponse.data.find(m => m.role === 'assistant')
FindAssistant(data) ==
    LET hits == {k \in DOMAIN data : data[k].role = "assistant"}
    IN  IF hits = {} THEN NULL
        ELSE data[CHOOSE k \in hits : \A j \in hits : k <= j]

RECURSIVE TextValues(_)
\* .filter(c => c.type === 'text').map(c => c.text?.value || '')
TextValues(parts) ==
    IF parts = <<>> THEN <<>>
    ELSE IF Head(parts).type = "text"
         THEN <<IF Head(parts).value = None THEN <<>> ELSE Head(parts).value[1]>>
              \o TextValues(Tail(parts))
         ELSE TextValues(Tail(parts))

\* ... .join('\n')
ExtractContent(entry) == Join(TextValues(entry.content), <<"\n">>)

\* The content of the last choice for that of the first
LastChoice(choices) ==
    IF choices = <<>> THEN None ELSE Some(choices[Len(choices)].message.content)

\* response.choices[0]?.message?.content
FirstChoice(choices) ==
    IF choices = <<>> THEN None ELSE Some(choices[1].message.content)

\* AfterStatus with pollCount <= maxPolls for pollCount < maxPolls
AfterStatusOneMore(i, rec) ==
    IF rec.runStatus \notin TerminalStatus /\ rec.pollCount <= maxPolls
    THEN /\ turns' = [turns EXCEPT ![i] = [rec EXCEPT !.pc = "sleep"]]
         /\ UNCHANGED <<storeVars, chatVars, listVars, webhooks, envVars, tabVars,
                        submitResult>>
    ELSE IF rec.runStatus = "completed"
    THEN /\ turns' = [turns EXCEPT ![i] = Issue(rec, "getMessages")]
         /\ UNCHANGED <<storeVars, chatVars, listVars, webhooks, envVars, tabVars,
                        submitResult>>
    ELSE IF rec.runStatus = "failed"
    THEN Throw(i, rec, "Assistant run failed. Please try again.", "Failed")
    ELSE IF rec.runStatus = "cancelled"
    THEN Throw(i, rec, "Assistant run was cancelled.", "Failed")
    ELSE Throw(i, rec, "Assistant run timed out. Please try again.", "TimedOut")

\* AfterStatus that tests the cap before the status: a turn that has made 60
\* reads times out whatever the last one returned
AfterStatusCapFirst(i, rec) ==
    IF rec.pollCount >= maxPolls
    THEN Throw(i, rec, "Assistant run timed out. Please try again.", "TimedOut")
    ELSE IF rec.runStatus \notin TerminalStatus
    THEN /\ turns' = [turns EXCEPT ![i] = [rec EXCEPT !.pc = "sleep"]]
         /\ UNCHANGED <<storeVars, chatVars, listVars, webhooks, envVars, tabVars,
                        submitResult>>
    ELSE IF rec.runStatus = "completed"
    THEN /\ turns' = [turns EXCEPT ![i] = Issue(rec, "getMessages")]
         /\ UNCHANGED <<storeVars, chatVars, listVars, webhooks, envVars, tabVars,
                        submitResult>>
    ELSE IF rec.runStatus = "failed"
    THEN Throw(i, rec, "Assistant run failed. Please try again.", "Failed")
    ELSE Throw(i, rec, "Assistant run was cancelled.", "Failed")

\* AfterStatus with one error for a failed and for a cancelled run
AfterStatusOneError(i, rec) ==
    IF rec.runStatus \notin TerminalStatus /\ rec.pollCount < maxPolls
    THEN /\ turns' = [turns EXCEPT ![i] = [rec EXCEPT !.pc = "sleep"]]
         /\ UNCHANGED <<storeVars, chatVars, listVars, webhooks, envVars, tabVars,
                        submitResult>>
    ELSE IF rec.runStatus = "completed"
    THEN /\ turns' = [turns EXCEPT ![i] = Issue(rec, "getMessages")]
         /\ UNCHANGED <<storeVars, chatVars, listVars, webhooks, envVars, tabVars,
                        submitResult>>
    ELSE IF rec.runStatus \in {"failed", "cancelled"}
    THEN Throw(i, rec, "Assistant run failed. Please try again.", "Failed")
    ELSE Throw(i, rec, "Assistant run timed out. Please try again.", "TimedOut")

\* AfterStatus with a loop that the status expired ends as well
AfterStatusExpiredEnds(i, rec) ==
    IF rec.runStatus \notin (TerminalStatus \cup {"expired"})
       /\ rec.pollCount < maxPolls
    THEN /\ turns' = [turns EXCEPT ![i] = [rec EXCEPT !.pc = "sleep"]]
         /\ UNCHANGED <<storeVars, chatVars, listVars, webhooks, envVars, tabVars,
                        submitResult>>
    ELSE IF rec.runStatus = "completed"
    THEN /\ turns' = [turns EXCEPT ![i] = Issue(rec, "getMessages")]
         /\ UNCHANGED <<storeVars, chatVars, listVars, webhooks, envVars, tabVars,
                        submitResult>>
    ELSE IF rec.runStatus = "failed"
    THEN Throw(i, rec, "Assistant run failed. Please try again.", "Failed")
    ELSE IF rec.runStatus = "cancelled"
    THEN Throw(i, rec, "Assistant run was cancelled.", "Failed")
    ELSE Throw(i, rec, "Assistant run timed out. Please try again.", "TimedOut")

\* The while condition and what follows the loop, given the status just
\* read and the poll count: sleep again, fetch the messages, or throw.
AfterStatus(i, rec) ==
    IF rec.runStatus \notin TerminalStatus /\ rec.pollCount < maxPolls
    THEN /\ turns' = [turns EXCEPT ![i] = [rec EXCEPT !.pc = "sleep"]]
         /\ UNCHANGED <<storeVars, chatVars, listVars, webhooks, envVars, tabVars,
                        submitResult>>
    ELSE IF rec.runStatus = "completed"
    THEN /\ turns' = [turns EXCEPT ![i] = Issue(rec, "getMessages")]
         /\ UNCHANGED <<storeVars, chatVars, listVars, webhooks, envVars, tabVars,
                        submitResult>>
    ELSE IF rec.runStatus = "failed"
    THEN Throw(i, rec, "Assistant run failed. Please try again.", "Failed")
    ELSE IF rec.runStatus = "cancelled"
    THEN Throw(i, rec, "Assistant run was cancelled.", "Failed")
    ELSE Throw(i, rec, "Assistant run timed out. Please try again.", "TimedOut")

\* await sendMessage(...) returns; runAssistant is called
SendMessageReturns(i) ==
    /\ turns[i].pc = "sendMessage"
    /\ turns' = [turns EXCEPT ![i] = Issue(@, "runAssistant")]
    /\ UNCHANGED <<storeVars, chatVars, listVars, webhooks, envVars, tabVars, submitResult>>

\* RunAssistantReturns followed by a loop that reads the status once before
\* it tests it
RunAssistantReturnsReadsFirst(i, st) ==
    /\ turns[i].pc = "runAssistant"
    /\ turns' = [turns EXCEPT ![i] =
                    [@ EXCEPT !.runStatus = st, !.pollCount = 0, !.pc = "sleep"]]
    /\ UNCHANGED <<storeVars, chatVars, listVars, webhooks, envVars, tabVars,
                   submitResult>>

\* await runAssistant(...) returns a run with status st
RunAssistantReturns(i, st) ==
    /\ turns[i].pc = "runAssistant"
    /\ AfterStatus(i, [turns[i] EXCEPT !.runStatus = st, !.pollCount = 0])

\* A timer that fires every 1000 ms, whether or not the last read has
\* returned
TimerFiresWhileAwaiting(i) ==
    /\ turns[i].pc \in {"sleep", "checkRunStatus"}
    /\ turns' = [turns EXCEPT ![i] =
                    [Issue(@, "checkRunStatus") EXCEPT !.nPolls = @ + 1]]
    /\ UNCHANGED <<storeVars, chatVars, listVars, webhooks, envVars, tabVars, submitResult>>

\* the 1000 ms timer of the loop body fires; checkRunStatus is called
TimerFires(i) ==
    /\ turns[i].pc = "sleep"
    /\ turns' = [turns EXCEPT ![i] =
                    [Issue(@, "checkRunStatus") EXCEPT !.nPolls = @ + 1]]
    /\ UNCHANGED <<storeVars, chatVars, listVars, webhooks, envVars, tabVars, submitResult>>

\* CheckRunStatusReturns without runStatus = statusResponse.status
CheckRunStatusReturnsStale(i, st) ==
    /\ turns[i].pc = "checkRunStatus"
    /\ AfterStatus(i, [turns[i] EXCEPT !.pollCount = @ + 1])

\* await checkRunStatus(...) returns status st; pollCount++
CheckRunStatusReturns(i, st) ==
    /\ turns[i].pc = "checkRunStatus"
    /\ AfterStatus(i, [turns[i] EXCEPT !.runStatus = st, !.pollCount = @ + 1])

\* The status the k-th read of the scripted run returns; the run keeps its
\* last status
ScriptAt(k) == run.script[Min(k, Len(run.script))]

\* runAssistant returns the scripted run
ScriptedRunStarts(i) ==
    /\ run.start # "none"
    /\ RunAssistantReturns(i, run.start)

\* checkRunStatus returns the scripted run's status at this read
ScriptedStatusReturns(i) ==
    /\ run.start # "none"
    /\ turns[i].pc = "checkRunStatus"
    /\ CheckRunStatusReturns(i, ScriptAt(turns[i].nPolls))

\* await getMessages(...) returns the list data
GetMessagesReturns(i, data) ==
    /\ turns[i].pc = "getMessages"
    /\ LET assistantMessage == FindAssistant(data)
       IN  IF assistantMessage # NULL
           THEN Succeed(i, [turns[i] EXCEPT !.listed = data],
                        ExtractContent(assistantMessage))
           ELSE Throw(i, [turns[i] EXCEPT !.listed = data],
                      "No assistant response found in the thread", "Failed")

\* CreateCompletionReturns that takes an empty content for a reply
CreateCompletionReturnsEmptyOk(i, choices) ==
    /\ turns[i].pc = "createCompletion"
    /\ LET assistantResponse == FirstChoice(choices)
           rec == [turns[i] EXCEPT !.completion = Some(choices)]
       IN  IF assistantResponse # None
           THEN Succeed(i, rec, assistantResponse[1])
           ELSE Throw(i, rec, "No response received from the model", "Failed")

\* await createCompletion(...) returns a response with these choices
CreateCompletionReturns(i, choices) ==
    /\ turns[i].pc = "createCompletion"
    /\ LET assistantResponse == FirstChoice(choices)
           rec == [turns[i] EXCEPT !.completion = Some(choices)]
       IN  IF assistantResponse # None /\ assistantResponse[1] # <<>>
           THEN Succeed(i, rec, assistantResponse[1])
           ELSE Throw(i, rec, "No response received from the model", "Failed")

\* A catch that calls the failed operation again
GatewayCallRetried(i, f) ==
    /\ turns[i].pc \in {"sendMessage", "runAssistant", "checkRunStatus",
                        "getMessages", "createCompletion"}
    /\ turns' = [turns EXCEPT ![i] = Issue(@, turns[i].pc)]
    /\ UNCHANGED <<storeVars, chatVars, listVars, webhooks, envVars, tabVars,
                   submitResult>>

\* The gateway call a turn awaits fails with HTTP status f
GatewayCallFails(i, f) ==
    /\ turns[i].pc \in {"sendMessage", "runAssistant", "checkRunStatus",
                        "getMessages", "createCompletion"}
    /\ Throw(i, [turns[i] EXCEPT !.failedAt = turns[i].pc, !.failureCode = f],
             GatewayError(turns[i].pc, f), "Failed")

\* The POST of a dispatched webhook settles
WebhookSettles(w, ok) ==
    /\ webhooks[w].result = "pending"
    /\ webhooks' = [webhooks EXCEPT ![w].result = sendWebhook(ok)]
    /\ UNCHANGED <<storeVars, chatVars, listVars, turns, envVars, tabVars, submitResult>>

(***************************************************************************)
(* The thread list: components/ThreadList.tsx                              *)
(***************************************************************************)
NewThread(threadId, count, time) ==
    [threadId |-> threadId, name |-> DefaultName(count), createdAt |-> time,
     lastUpdated |-> time, isActive |-> TRUE]

\* The "+" button is enabled
CanCreate == activeTab = "chat" /\ ~isCreating /\ activeConfiguration # NULL

\* handleCreateThread when the configuration selects direct completion:
\* no await, the handler runs to its end in one step.  The click comes at
\* time `time`, which Date.now() then returns.
CreateLocalThread(time) ==
    /\ CanCreate
    /\ ~UsesAssistant(activeConfiguration)
    /\ created < MaxThreads
    /\ time >= now
    /\ now' = time
    /\ LET newThread == NewThread(LocalId(time), Len(threads), time)
       IN  SetStore(setLoading(addThread(setLoading(Store, TRUE), newThread),
                               FALSE))
    /\ created' = created + 1
    /\ isCreating' = FALSE
    /\ listError' = NoError
    /\ UNCHANGED <<chatVars, creation, turns, webhooks, run, tabVars,
                   submitResult>>

\* handleCreateThread up to await createThread(activeConfiguration);
\* `count` is threads.length of the handler's closure
CreateThreadStarts ==
    /\ CanCreate
    /\ UsesAssistant(activeConfiguration)
    /\ created < MaxThreads
    /\ isCreating' = TRUE
    /\ listError' = NoError
    /\ creation' = [config |-> activeConfiguration, count |-> Len(threads)]
    /\ SetStore(setLoading(Store, TRUE))
    /\ UNCHANGED <<chatVars, turns, webhooks, envVars, tabVars, submitResult>>

\* createThread returns a thread the provider has just created
CreateThreadReturns ==
    /\ creation # NULL
    /\ LET newThread == NewThread(RemoteId(created + 1), creation.count, now)
       IN  SetStore(setLoading(addThread(Store, newThread), FALSE))
    /\ created' = created + 1
    /\ isCreating' = FALSE
    /\ creation' = NULL
    /\ UNCHANGED <<chatVars, listError, turns, webhooks, now, run, tabVars,
                   submitResult>>

\* createThread fails with HTTP status f; `fallback` is the user's answer to
\* the confirm() that offers direct completion instead, given at time `time`
CreateThreadFails(f, fallback, time) ==
    /\ creation # NULL
    /\ time >= now
    /\ IF fallback
       THEN /\ LET newThread == NewThread(LocalId(time), creation.count, time)
               IN  SetStore(setLoading(addThread(Store, newThread), FALSE))
            /\ now' = time
            /\ created' = created + 1
            /\ UNCHANGED listError
       ELSE /\ SetStore(setLoading(Store, FALSE))
            /\ listError' = createThreadError(f)
            /\ UNCHANGED <<now, created>>
    /\ isCreating' = FALSE
    /\ creation' = NULL
    /\ UNCHANGED <<chatVars, turns, webhooks, run, tabVars, submitResult>>

\* A click on a thread of the list
SetActiveThread(k) ==
    /\ activeTab = "chat"
    /\ k \in DOMAIN threads
    /\ activeThread # threads[k]
    /\ SetStore(setActiveThread(Store, threads[k]))
    /\ UNCHANGED <<chatVars, listVars, turns, webhooks, envVars, tabVars, submitResult>>

\* A click on a thread's trash icon, confirmed
DeleteThread(k) ==
    /\ activeTab = "chat"
    /\ k \in DOMAIN threads
    /\ SetStore(deleteThread(Store, threads[k].threadId))
    /\ turns' = [i \in DOMAIN turns |->
                    IF turns[i].thread.threadId = threads[k].threadId
                    THEN [turns[i] EXCEPT !.threadDeleted = TRUE]
                    ELSE turns[i]]
    /\ UNCHANGED <<chatVars, listVars, webhooks, envVars, tabVars, submitResult>>

(***************************************************************************)
(* The user at the chat pane.  The pane shows the textarea and the send    *)
(* button only with an active thread; both are disabled while isLoading.   *)
(***************************************************************************)
CanType == activeTab = "chat" /\ activeThread # NULL /\ ~isLoading

\* onChange of the textarea: setInput(e.target.value)
TypeInput(text) ==
    /\ CanType
    /\ text # input
    /\ input' = text
    /\ UNCHANGED <<storeVars, error, listVars, turns, webhooks, envVars, tabVars,
                   submitResult>>

\* Enter in the textarea: handleKeyDown calls handleSendMessage.  At most
\* `limit` turns are started.
PressEnter(limit) ==
    /\ CanType
    /\ Len(turns) < limit
    /\ handleSendMessage

\* A click on the send button, disabled={!input.trim() || isLoading}
ClickSend(limit) ==
    /\ CanType
    /\ Trim(input) # <<>>
    /\ Len(turns) < limit
    /\ handleSendMessage

(***************************************************************************)
(* The tabs of App.tsx and the configuration panel.  The chat pane and the *)
(* thread list are mounted only under the chat tab and the configuration   *)
(* panel only under the config tab; a component that is mounted again      *)
(* starts from its initial state, and a handler that was awaiting a call    *)
(* when its component was unmounted runs on.                               *)
(***************************************************************************)
\* setActiveTab(tab).  Leaving the chat tab unmounts ChatInterface and
\* ThreadList.
SetActiveTab(tab) ==
    /\ tab # activeTab
    /\ activeTab' = tab
    /\ IF activeTab = "chat"
       THEN /\ input' = <<>>
            /\ error' = NoError
            /\ isCreating' = FALSE
            /\ listError' = NoError
            /\ turns' = [i \in DOMAIN turns |->
                            IF InFlight(i) /\ turns[i].leftAt = "none"
                            THEN [turns[i] EXCEPT
                                     !.leftAt = turns[i].pc,
                                     !.leftCalls = Len(turns[i].calls)]
                            ELSE turns[i]]
       ELSE UNCHANGED <<chatVars, isCreating, listError, turns>>
    /\ UNCHANGED <<storeVars, creation, webhooks, envVars, submitResult>>

\* validateAndSave of the configuration panel, from its call of the store:
\* the form holds the active configuration's id when there is one (the panel
\* is editing it), and a new configuration is the default one when it is
\* the first.
SaveConfiguration(form) ==
    /\ activeTab = "config"
    /\ IF activeConfiguration # NULL
       THEN SetStore(updateConfiguration(Store,
                [form EXCEPT !.id = activeConfiguration.id]))
       ELSE /\ Len(configurations) < MaxConfigs
            /\ SetStore(addConfiguration(Store,
                    [form EXCEPT !.isDefault = (Len(configurations) = 0)], now))
    /\ UNCHANGED <<chatVars, listVars, turns, webhooks, envVars, tabVars,
                   submitResult>>

\* handleDelete of the configuration panel, confirmed
DeleteConfiguration ==
    /\ activeTab = "config"
    /\ activeConfiguration # NULL
    /\ SetStore(deleteConfiguration(Store, activeConfiguration.id))
    /\ UNCHANGED <<chatVars, listVars, turns, webhooks, envVars, tabVars,
                   submitResult>>

\* importedConfigs.forEach(...) of importConfigurations: a configuration
\* whose id is not among `closure`, the configurations of the panel's last
\* render, is added and any other is updated.  ticks[k] is the number of
\* milliseconds that pass before the k-th configuration is handled.
RECURSIVE ImportEach(_, _, _, _, _)
ImportEach(st, importedConfigs, closure, time, ticks) ==
    IF importedConfigs = <<>> THEN st
    ELSE LET config == Head(importedConfigs)
             t == time + Head(ticks)
             exists == \E k \in DOMAIN closure : closure[k].id = config.id
         IN  ImportEach(IF ~exists THEN addConfiguration(st, config, t)
                        ELSE updateConfiguration(st, config),
                        Tail(importedConfigs), closure, t, Tail(ticks))

RECURSIVE Sum(_)
Sum(ns) == IF ns = <<>> THEN 0 ELSE Head(ns) + Sum(Tail(ns))

\* reader.onload of importConfigurations: the file holds the array
\* importedConfigs.  A configuration without an id makes the handler throw
\* before anything is stored (the same test of name and apiKey, which the
\* model's configurations do not carry, is left out).  The clock is kept
\* within `limit`.
ImportConfigurations(importedConfigs, ticks, limit) ==
    /\ activeTab = "config"
    /\ Len(ticks) = Len(importedConfigs)
    /\ now + Sum(ticks) <= limit
    /\ Len(configurations) + Len(importedConfigs) <= MaxConfigs
    /\ IF \E k \in DOMAIN importedConfigs : importedConfigs[k].id = <<>>
       THEN UNCHANGED storeVars
       ELSE SetStore(ImportEach(Store, importedConfigs, configurations, now, ticks))
    /\ now' = now + Sum(ticks)
    /\ UNCHANGED <<chatVars, listVars, turns, webhooks, created, run, tabVars,
                   submitResult>>

\* A click on a saved configuration
SetActiveConfiguration(k) ==
    /\ activeTab = "config"
    /\ k \in DOMAIN configurations
    /\ activeConfiguration # configurations[k]
    /\ SetStore(setActiveConfiguration(Store, configurations[k]))
    /\ UNCHANGED <<chatVars, listVars, turns, webhooks, envVars, tabVars,
                   submitResult>>

\* A millisecond passes, up to the time `limit`
ClockAdvances(limit) ==
    /\ now < limit
    /\ now' = now + 1
    /\ UNCHANGED <<storeVars, chatVars, listVars, turns, webhooks, created,
                   run, tabVars, submitResult>>

\* Time passes
Tick == ClockAdvances(MaxClock)

(***************************************************************************)
(* Inputs of the environment                                               *)
(***************************************************************************)
Config(useAssistantApi, assistantId, webhookURL) ==
    [id |-> DecStr(0), useAssistantApi |-> useAssistantApi,
     assistantId |-> assistantId, webhookURL |-> webhookURL, model |-> "gpt-4",
     isDefault |-> TRUE]

AssistedConfig == Config(TRUE, "asst_1", "")
DirectConfig == Config(FALSE, "", "")

AllConfigs ==
    {Config(u, a, w) : u \in BOOLEAN, a \in {"", "asst_1"},
                       w \in {"", "https://hook.example"}}

\* No run is scripted: every status read returns what the specification's
\* next-state relation offers
NoRun == [start |-> "none", script |-> <<>>]

Hi == <<"h", "i">>
Blank == <<" ", " ">>
ThreadX == <<"T", "h", "r", "e", "a", "d", " ", "x">>

\* The statuses a status read may return in Spec after `count` reads: there
\* the provider's run resolves within MaxRunLen reads
StatusWithin(count) ==
    IF count < MaxRunLen THEN {"in_progress", "completed", "failed"}
    ELSE {"completed", "failed"}

UserEntry == Entry("user", <<TextPart(Hi)>>)
ReplyEntry == Entry("assistant", <<TextPart(<<"o", "k">>)>>)
MixedEntry == Entry("assistant", <<TextPart(<<"a">>), ImagePart, TextPart(<<"b">>)>>)

\* Assistant entries without a text: an image only, and a text segment
\* whose value is empty
ImageOnlyEntry == Entry("assistant", <<ImagePart>>)
EmptyTextEntry == Entry("assistant", <<TextPart(<<>>)>>)

\* Lists whose first assistant entry has no text
SilentLists == {<<ImageOnlyEntry>>, <<UserEntry, EmptyTextEntry>>}

\* An entry with its created_at
EntryAt(role, parts, createdAt) ==
    [role |-> role, content |-> parts, created_at |-> createdAt]

\* The provider's thread after an earlier exchange and this turn's run: the
\* earlier reply, the user's new message and the run's reply
EarlierReply == EntryAt("assistant", <<TextPart(<<"o", "l", "d">>)>>, 1)
NewUserEntry == EntryAt("user", <<TextPart(Hi)>>, 2)
NewReply == EntryAt("assistant", <<TextPart(<<"n", "e", "w">>)>>, 3)

\* The thread listed newest first and oldest first
NewestFirst == <<NewReply, NewUserEntry, EarlierReply>>
OldestFirst == <<EarlierReply, NewUserEntry, NewReply>>

\* The thread, newest first, when the run completed without adding a message
NoNewReply == <<NewUserEntry, EarlierReply>>

\* The statuses of a scripted run
ScriptStatus == {"queued", "in_progress", "completed", "failed"}

\* The runs: one that starts in a non-terminal status and then goes through
\* up to MaxScript statuses, or one that is already terminal when
\* runAssistant returns and stays so
Runs ==
    {[start |-> st, script |-> sc] :
        st \in {"queued", "in_progress"},
        sc \in UNION {[1..n -> ScriptStatus] : n \in 1..MaxScript}}
    \cup {[start |-> st, script |-> <<st>>] : st \in {"completed", "failed"}}

\* The lists getMessages may return: up to MaxListLen entries
MessageLists ==
    UNION {[1..n -> {UserEntry, ReplyEntry, MixedEntry}] : n \in 0..MaxListLen}

Choices ==
    {<<>>, <<[message |-> [content |-> <<>>]]>>,
     <<[message |-> [content |-> <<"H", "i">>]]>>}

\* 'Hello' and 'Hi there'
Hello == <<"H", "e", "l", "l", "o">>
HiThere == <<"H", "i", " ", "t", "h", "e", "r", "e">>

\* One choice with the content `text`
Choice(text) == [message |-> [content |-> text]]

\* The completions of SpecHello: none, an empty one, 'Hi there', and two
\* choices of which the first is 'Hi there' or is empty
HelloChoices ==
    {<<>>, <<Choice(<<>>)>>, <<Choice(HiThere)>>,
     <<Choice(HiThere), Choice(Hi)>>, <<Choice(<<>>), Choice(Hi)>>}

(***************************************************************************)
(* Spec: the application with one configuration, the user creating,        *)
(* selecting and deleting threads and sending messages.  Two clicks on     *)
(* "+" are at least a millisecond apart; no other time passes.             *)
(***************************************************************************)
Init ==
    /\ activeConfiguration \in {AssistedConfig, DirectConfig}
    /\ configurations = <<activeConfiguration>>
    /\ threads = <<>>
    /\ activeThread = NULL
    /\ messages = <<>>
    /\ isLoading = FALSE
    /\ input = <<>>
    /\ error = NoError
    /\ isCreating = FALSE
    /\ listError = NoError
    /\ creation = NULL
    /\ turns = <<>>
    /\ webhooks = <<>>
    /\ now = 0
    /\ created = 0
    /\ run = NoRun
    /\ activeTab = "chat"
    /\ submitResult = "none"

Next ==
    \/ CreateLocalThread(now + 1)
    \/ CreateThreadStarts
    \/ CreateThreadReturns
    \/ \E fallback \in BOOLEAN : CreateThreadFails(401, fallback, now + 1)
    \/ \E k \in DOMAIN threads : SetActiveThread(k)
    \/ \E k \in DOMAIN threads : DeleteThread(k)
    \/ TypeInput(Hi)
    \/ ClickSend(MaxTurns)
    \/ \E i \in DOMAIN turns : SendMessageReturns(i)
    \/ \E i \in DOMAIN turns : \E st \in StatusWithin(0) :
          RunAssistantReturns(i, st)
    \/ \E i \in DOMAIN turns : TimerFires(i)
    \/ \E i \in DOMAIN turns :
          \E st \in StatusWithin(turns[i].pollCount + 1) :
             CheckRunStatusReturns(i, st)
    \/ \E i \in DOMAIN turns : GetMessagesReturns(i, <<UserEntry, ReplyEntry>>)
    \/ \E i \in DOMAIN turns : GetMessagesReturns(i, <<UserEntry>>)
    \/ \E i \in DOMAIN turns : \E choices \in Choices :
          CreateCompletionReturns(i, choices)
    \/ \E i \in DOMAIN turns : GatewayCallFails(i, 401)

Spec == Init /\ [][Next]_vars

(***************************************************************************)
(* SpecTurn: one conversation and one turn on it, with every configuration *)
(* and every answer of the gateway: any status at any read, any failure of *)
(* any call, any message list, any completion.  The user may delete the    *)
(* conversation at any time.                                               *)
(***************************************************************************)
FailureCodes == {0, 400, 401, 404, 429, 500}

\* The thread handleCreateThread made under configuration cfg
FirstThread(cfg) ==
    NewThread(IF UsesAssistant(cfg) THEN RemoteId(1) ELSE LocalId(0), 0, 0)

InitTurn ==
    /\ activeConfiguration \in AllConfigs
    /\ configurations = <<activeConfiguration>>
    /\ threads = <<FirstThread(activeConfiguration)>>
    /\ activeThread = FirstThread(activeConfiguration)
    /\ messages = <<>>
    /\ isLoading = FALSE
    /\ input = <<>>
    /\ error = NoError
    /\ isCreating = FALSE
    /\ listError = NoError
    /\ creation = NULL
    /\ turns = <<>>
    /\ webhooks = <<>>
    /\ now = 0
    /\ created = 1
    /\ run = NoRun
    /\ activeTab = "chat"
    /\ submitResult = "none"

NextTurn ==
    \/ \E text \in {Hi, ThreadX} : TypeInput(text)
    \/ ClickSend(1)
    \/ DeleteThread(1)
    \/ \E i \in DOMAIN turns : SendMessageReturns(i)
    \/ \E i \in DOMAIN turns : \E st \in RunStatus : RunAssistantReturns(i, st)
    \/ \E i \in DOMAIN turns : TimerFires(i)
    \/ \E i \in DOMAIN turns : \E st \in RunStatus : CheckRunStatusReturns(i, st)
    \/ \E i \in DOMAIN turns : \E data \in MessageLists : GetMessagesReturns(i, data)
    \/ \E i \in DOMAIN turns : \E data \in SilentLists : GetMessagesReturns(i, data)
    \/ \E i \in DOMAIN turns : \E choices \in Choices :
          CreateCompletionReturns(i, choices)
    \/ \E i \in DOMAIN turns : \E f \in FailureCodes : GatewayCallFails(i, f)
    \/ \E w \in DOMAIN webhooks : \E ok \in BOOLEAN : WebhookSettles(w, ok)

SpecTurn == InitTurn /\ [][NextTurn]_vars

(***************************************************************************)
(* SpecLive: SpecTurn where every timer of a turn fires and every gateway  *)
(* call of a turn returns or fails.                                        *)
(***************************************************************************)
\* The awaited timer or call of an in-flight turn settles
TurnStep ==
    \E i \in DOMAIN turns :
        \/ SendMessageReturns(i)
        \/ \E st \in RunStatus : RunAssistantReturns(i, st)
        \/ TimerFires(i)
        \/ \E st \in RunStatus : CheckRunStatusReturns(i, st)
        \/ \E data \in MessageLists : GetMessagesReturns(i, data)
        \/ \E choices \in Choices : CreateCompletionReturns(i, choices)
        \/ \E f \in FailureCodes : GatewayCallFails(i, f)

SpecLive == InitTurn /\ [][NextTurn]_vars /\ WF_vars(TurnStep)

(***************************************************************************)
(* SpecDirect: one conversation that already holds up to MaxPrior          *)
(* messages (the store is persisted), and direct-completion turns sent on  *)
(* it one after the other.                                                 *)
(***************************************************************************)
\* The k-th message of the persisted conversation: roles alternate and the
\* body is the decimal of k, so that no two bodies are equal
PriorMessage(threadId, k) ==
    [NewMessage(threadId, DecStr(k), IF k % 2 = 1 THEN "user" ELSE "assistant",
                0, 0) EXCEPT !.id = DecStr(0)]

InitDirect ==
    /\ activeConfiguration = DirectConfig
    /\ configurations = <<DirectConfig>>
    /\ threads = <<FirstThread(DirectConfig)>>
    /\ activeThread = FirstThread(DirectConfig)
    /\ \E n \in 0..MaxPrior :
          messages = [k \in 1..n |-> PriorMessage(LocalId(0), k)]
    /\ isLoading = FALSE
    /\ input = <<>>
    /\ error = NoError
    /\ isCreating = FALSE
    /\ listError = NoError
    /\ creation = NULL
    /\ turns = <<>>
    /\ webhooks = <<>>
    /\ now = 0
    /\ created = 1
    /\ run = NoRun
    /\ activeTab = "chat"
    /\ submitResult = "none"

NextDirect ==
    \/ \E text \in {Hi, ThreadX} : TypeInput(text)
    \/ ClickSend(MaxTurns)
    \/ \E i \in DOMAIN turns : \E choices \in Choices :
          CreateCompletionReturns(i, choices)
    \/ \E i \in DOMAIN turns : GatewayCallFails(i, 429)
    \/ Tick

SpecDirect == InitDirect /\ [][NextDirect]_vars

(***************************************************************************)
(* SpecHandler: handleSendMessage called in any state of the store and of  *)
(* the chat pane: with or without an active thread, an active              *)
(* configuration, a non-blank input, a turn in flight.                     *)
(***************************************************************************)
\* handleSendMessage is called
CallHandleSendMessage ==
    /\ Len(turns) < MaxTurns
    /\ handleSendMessage

InitHandler ==
    /\ activeConfiguration \in {NULL, AssistedConfig, DirectConfig}
    /\ configurations = IF activeConfiguration = NULL THEN <<>>
                        ELSE <<activeConfiguration>>
    /\ threads = <<FirstThread(AssistedConfig)>>
    /\ activeThread \in {NULL, FirstThread(AssistedConfig)}
    /\ messages = <<>>
    /\ isLoading = FALSE
    /\ input \in {<<>>, Blank, Hi}
    /\ error = NoError
    /\ isCreating = FALSE
    /\ listError = NoError
    /\ creation = NULL
    /\ turns = <<>>
    /\ webhooks = <<>>
    /\ now = 0
    /\ created = 1
    /\ run = NoRun
    /\ activeTab = "chat"
    /\ submitResult = "none"

NextHandler ==
    \/ CallHandleSendMessage
    \/ PressEnter(MaxTurns)
    \/ \E text \in {<<>>, Blank, Hi} : TypeInput(text)
    \/ \E i \in DOMAIN turns : SendMessageReturns(i)
    \/ \E i \in DOMAIN turns : \E st \in StatusWithin(0) :
          RunAssistantReturns(i, st)
    \/ \E i \in DOMAIN turns : TimerFires(i)
    \/ \E i \in DOMAIN turns :
          \E st \in StatusWithin(turns[i].pollCount + 1) :
             CheckRunStatusReturns(i, st)
    \/ \E i \in DOMAIN turns : GetMessagesReturns(i, <<ReplyEntry>>)
    \/ \E i \in DOMAIN turns : \E choices \in Choices :
          CreateCompletionReturns(i, choices)
    \/ \E i \in DOMAIN turns : GatewayCallFails(i, 401)

SpecHandler == InitHandler /\ [][NextHandler]_vars

(***************************************************************************)
(* SpecApp: one conversation and one turn on it, while the user moves      *)
(* between the chat tab and the configuration tab, where the               *)
(* configurations are edited, deleted, added and selected.                 *)
(***************************************************************************)
\* A second saved configuration, added a millisecond after the first
SecondConfig == [DirectConfig EXCEPT !.id = DecStr(1), !.isDefault = FALSE]

\* What the form of the configuration panel is saved with
Forms == {Config(u, a, "") : u \in BOOLEAN, a \in {"", "asst_1"}}

InitApp ==
    /\ activeConfiguration \in {AssistedConfig, DirectConfig}
    /\ configurations = <<activeConfiguration, SecondConfig>>
    /\ threads = <<FirstThread(activeConfiguration)>>
    /\ activeThread = FirstThread(activeConfiguration)
    /\ messages = <<>>
    /\ isLoading = FALSE
    /\ input = <<>>
    /\ error = NoError
    /\ isCreating = FALSE
    /\ listError = NoError
    /\ creation = NULL
    /\ turns = <<>>
    /\ webhooks = <<>>
    /\ now = 1
    /\ created = 1
    /\ run = NoRun
    /\ activeTab = "chat"
    /\ submitResult = "none"

NextApp ==
    \/ \E tab \in {"chat", "config"} : SetActiveTab(tab)
    \/ \E form \in Forms : SaveConfiguration(form)
    \/ DeleteConfiguration
    \/ \E k \in DOMAIN configurations : SetActiveConfiguration(k)
    \/ TypeInput(Hi)
    \/ ClickSend(1)
    \/ \E i \in DOMAIN turns : SendMessageReturns(i)
    \/ \E i \in DOMAIN turns : \E st \in StatusWithin(0) :
          RunAssistantReturns(i, st)
    \/ \E i \in DOMAIN turns : TimerFires(i)
    \/ \E i \in DOMAIN turns :
          \E st \in StatusWithin(turns[i].pollCount + 1) :
             CheckRunStatusReturns(i, st)
    \/ \E i \in DOMAIN turns : GetMessagesReturns(i, <<ReplyEntry>>)
    \/ \E i \in DOMAIN turns : \E choices \in Choices :
          CreateCompletionReturns(i, choices)
    \/ \E i \in DOMAIN turns : GatewayCallFails(i, 401)

SpecApp == InitApp /\ [][NextApp]_vars

(***************************************************************************)
(* SpecRun: one assisted turn against a run whose statuses are fixed in    *)
(* advance, and a provider thread listed newest first or oldest first.     *)
(***************************************************************************)
InitRun ==
    /\ activeConfiguration = AssistedConfig
    /\ configurations = <<AssistedConfig>>
    /\ threads = <<FirstThread(AssistedConfig)>>
    /\ activeThread = FirstThread(AssistedConfig)
    /\ messages = <<>>
    /\ isLoading = FALSE
    /\ input = <<>>
    /\ error = NoError
    /\ isCreating = FALSE
    /\ listError = NoError
    /\ creation = NULL
    /\ turns = <<>>
    /\ webhooks = <<>>
    /\ now = 0
    /\ created = 1
    /\ run \in Runs
    /\ activeTab = "chat"
    /\ submitResult = "none"

NextRun ==
    \/ TypeInput(Hi)
    \/ ClickSend(1)
    \/ \E i \in DOMAIN turns : SendMessageReturns(i)
    \/ \E i \in DOMAIN turns : ScriptedRunStarts(i)
    \/ \E i \in DOMAIN turns : TimerFires(i)
    \/ \E i \in DOMAIN turns : ScriptedStatusReturns(i)
    \/ \E i \in DOMAIN turns :
          \E data \in {NewestFirst, OldestFirst, NoNewReply} :
             GetMessagesReturns(i, data)
    \/ \E i \in DOMAIN turns : GatewayCallFails(i, 500)

SpecRun == InitRun /\ [][NextRun]_vars

(***************************************************************************)
(* SpecCreate: the thread list alone.  Threads are created, selected and   *)
(* deleted; a click may be handled in the same millisecond as the one      *)
(* before it, or later.                                                    *)
(***************************************************************************)
InitCreate ==
    /\ activeConfiguration \in {AssistedConfig, DirectConfig}
    /\ configurations = <<activeConfiguration>>
    /\ threads = <<>>
    /\ activeThread = NULL
    /\ messages = <<>>
    /\ isLoading = FALSE
    /\ input = <<>>
    /\ error = NoError
    /\ isCreating = FALSE
    /\ listError = NoError
    /\ creation = NULL
    /\ turns = <<>>
    /\ webhooks = <<>>
    /\ now = 0
    /\ created = 0
    /\ run = NoRun
    /\ activeTab = "chat"
    /\ submitResult = "none"

NextCreate ==
    \/ \E time \in {now, now + 1} : CreateLocalThread(time)
    \/ CreateThreadStarts
    \/ CreateThreadReturns
    \/ \E f \in FailureCodes : \E fallback \in BOOLEAN :
          \E time \in {now, now + 1} : CreateThreadFails(f, fallback, time)
    \/ \E k \in DOMAIN threads : SetActiveThread(k)
    \/ \E k \in DOMAIN threads : DeleteThread(k)
    \/ TypeInput(Hi)

SpecCreate == InitCreate /\ [][NextCreate]_vars

(***************************************************************************)
(* SpecInterleave: Spec with a provider that answers every call, where     *)
(* turns on several conversations are in flight together: threads are      *)
(* created, selected and deleted while turns await their calls.            *)
(***************************************************************************)
NextInterleave ==
    \/ CreateLocalThread(now + 1)
    \/ CreateThreadStarts
    \/ CreateThreadReturns
    \/ \E k \in DOMAIN threads : SetActiveThread(k)
    \/ \E k \in DOMAIN threads : DeleteThread(k)
    \/ TypeInput(Hi)
    \/ ClickSend(MaxTurns)
    \/ \E i \in DOMAIN turns : SendMessageReturns(i)
    \/ \E i \in DOMAIN turns : RunAssistantReturns(i, "completed")
    \/ \E i \in DOMAIN turns : GetMessagesReturns(i, <<ReplyEntry, UserEntry>>)
    \/ \E i \in DOMAIN turns :
          CreateCompletionReturns(i, <<[message |-> [content |-> <<"H", "i">>]]>>)

SpecInterleave == Init /\ [][NextInterleave]_vars

(***************************************************************************)
(* SpecClock: one conversation and one turn on it while time passes: a     *)
(* millisecond or more may pass before the turn begins and between any two *)
(* of its steps.                                                           *)
(***************************************************************************)
NextClock ==
    \/ ClockAdvances(MaxTime)
    \/ TypeInput(Hi)
    \/ ClickSend(1)
    \/ \E i \in DOMAIN turns : SendMessageReturns(i)
    \/ \E i \in DOMAIN turns : \E st \in StatusWithin(0) :
          RunAssistantReturns(i, st)
    \/ \E i \in DOMAIN turns : TimerFires(i)
    \/ \E i \in DOMAIN turns :
          \E st \in StatusWithin(turns[i].pollCount + 1) :
             CheckRunStatusReturns(i, st)
    \/ \E i \in DOMAIN turns : GetMessagesReturns(i, <<UserEntry, ReplyEntry>>)
    \/ \E i \in DOMAIN turns : \E choices \in Choices :
          CreateCompletionReturns(i, choices)
    \/ \E i \in DOMAIN turns : GatewayCallFails(i, 401)

SpecClock == InitTurn /\ [][NextClock]_vars

(***************************************************************************)
(* SpecHello: SpecDirect with the input 'Hello', under a configuration     *)
(* with or without a webhook target, and completions of no, one or two     *)
(* choices.                                                                *)
(***************************************************************************)
InitHello ==
    /\ activeConfiguration \in {DirectConfig, Config(FALSE, "", "https://hook.example")}
    /\ configurations = <<activeConfiguration>>
    /\ threads = <<FirstThread(DirectConfig)>>
    /\ activeThread = FirstThread(DirectConfig)
    /\ \E n \in 0..MaxPrior :
          messages = [k \in 1..n |-> PriorMessage(LocalId(0), k)]
    /\ isLoading = FALSE
    /\ input = <<>>
    /\ error = NoError
    /\ isCreating = FALSE
    /\ listError = NoError
    /\ creation = NULL
    /\ turns = <<>>
    /\ webhooks = <<>>
    /\ now = 0
    /\ created = 1
    /\ run = NoRun
    /\ activeTab = "chat"
    /\ submitResult = "none"

NextHello ==
    \/ TypeInput(Hello)
    \/ ClickSend(MaxTurns)
    \/ \E i \in DOMAIN turns : \E choices \in HelloChoices :
          CreateCompletionReturns(i, choices)
    \/ \E i \in DOMAIN turns : \E f \in FailureCodes : GatewayCallFails(i, f)
    \/ \E w \in DOMAIN webhooks : \E ok \in BOOLEAN : WebhookSettles(w, ok)

SpecHello == InitHello /\ [][NextHello]_vars

(***************************************************************************)
(* SpecName: the first turn of a conversation that still has its default   *)
(* name, for every input of up to MaxInputLen characters drawn from a      *)
(* letter, the space, the tab and the newline, and every longer input of   *)
(* up to MaxWordsLen letters and spaces.                                   *)
(***************************************************************************)
Inputs ==
    UNION {[1..n -> {"a", " ", "\t", "\n"}] : n \in 0..MaxInputLen}
    \cup UNION {[1..n -> {"a", " "}] : n \in (MaxInputLen + 1)..MaxWordsLen}

InitName ==
    /\ activeConfiguration = DirectConfig
    /\ configurations = <<DirectConfig>>
    /\ threads = <<FirstThread(DirectConfig)>>
    /\ activeThread = FirstThread(DirectConfig)
    /\ messages = <<>>
    /\ isLoading = FALSE
    /\ input \in Inputs
    /\ error = NoError
    /\ isCreating = FALSE
    /\ listError = NoError
    /\ creation = NULL
    /\ turns = <<>>
    /\ webhooks = <<>>
    /\ now = 0
    /\ created = 1
    /\ run = NoRun
    /\ activeTab = "chat"
    /\ submitResult = "none"

NextName ==
    \/ ClickSend(1)
    \/ \E i \in DOMAIN turns : CreateCompletionReturns(i, <<Choice(Hi)>>)
    \/ \E i \in DOMAIN turns : GatewayCallFails(i, 500)

SpecName == InitName /\ [][NextName]_vars

(***************************************************************************)
(* SpecConfig: the configuration panel on a store without configurations.  *)
(* Configurations are saved by hand, imported from files of up to          *)
(* MaxImport configurations, selected and deleted.  A save by hand comes   *)
(* at least a millisecond after the configuration before it was added; the *)
(* loop of an import may or may not cross a millisecond between two        *)
(* configurations.                                                         *)
(***************************************************************************)
\* The ids of the configurations of an imported file: none, one that a
\* configuration saved at time 1 has, and two others
ImportIds == {<<>>, DecStr(1), DecStr(8), DecStr(9)}

ImportedConfigs ==
    {[c EXCEPT !.id = id, !.isDefault = FALSE] :
        c \in {DirectConfig, AssistedConfig}, id \in ImportIds}

ImportFiles == UNION {[1..n -> ImportedConfigs] : n \in 1..MaxImport}

\* No stored configuration was added in the current millisecond
ClockMovedOn == \A k \in DOMAIN configurations : configurations[k].id # DecStr(now)

InitConfig ==
    /\ activeConfiguration = NULL
    /\ configurations = <<>>
    /\ threads = <<>>
    /\ activeThread = NULL
    /\ messages = <<>>
    /\ isLoading = FALSE
    /\ input = <<>>
    /\ error = NoError
    /\ isCreating = FALSE
    /\ listError = NoError
    /\ creation = NULL
    /\ turns = <<>>
    /\ webhooks = <<>>
    /\ now = 0
    /\ created = 0
    /\ run = NoRun
    /\ activeTab = "chat"
    /\ submitResult = "none"

NextConfig ==
    \/ \E tab \in {"chat", "config"} : SetActiveTab(tab)
    \/ ClockAdvances(MaxTime)
    \/ \E form \in Forms : ClockMovedOn /\ SaveConfiguration(form)
    \/ DeleteConfiguration
    \/ \E k \in DOMAIN configurations : SetActiveConfiguration(k)
    \/ \E file \in ImportFiles : \E ticks \in [DOMAIN file -> {0, 1}] :
          ImportConfigurations(file, ticks, MaxTime)

SpecConfig == InitConfig /\ [][NextConfig]_vars

(***************************************************************************)
(* Properties                                                              *)
(***************************************************************************)
\* The number of messages in the store with role `role` that turn i built
NumBuilt(i, role) ==
    Cardinality({k \in DOMAIN messages :
                    messages[k].turn = i /\ messages[k].role = role})

\* Turn i ended without an error: handleSendMessage returned through its
\* try block
EndedWell(i) == turns[i].pc = "done" /\ turns[i].errorMsg = ""

\* Turn i ended with an error set by the catch of handleSendMessage
EndedBadly(i) == turns[i].pc = "done" /\ turns[i].errorMsg # ""

TimedOutMessage == "Assistant run timed out. Please try again."
RunFailedMessage == "Assistant run failed. Please try again."
RunCancelledMessage == "Assistant run was cancelled."

\* C1: a turn appends at most one assistant message, and an assisted turn
\* that ends without an error has appended exactly one: it is in the store
\* once, unless the conversation was deleted after the turn began.
C1_OneAssistantMessage ==
    \A i \in DOMAIN turns :
        /\ turns[i].nAssistant <= 1
        /\ NumBuilt(i, "assistant") <= 1
        /\ (EndedWell(i) /\ UsesAssistant(turns[i].config)) =>
              /\ turns[i].nAssistant = 1
              /\ ~turns[i].threadDeleted => NumBuilt(i, "assistant") = 1

\* C1 witness: an assisted turn that polled, ended without an error and
\* whose assistant message is in the store
C1_Witness ==
    \E i \in DOMAIN turns :
        /\ EndedWell(i)
        /\ UsesAssistant(turns[i].config)
        /\ turns[i].nPolls >= 2
        /\ NumBuilt(i, "assistant") = 1

\* C2: a turn calls checkRunStatus at most 60 times, and a turn that ends
\* after a 60th read that returned a non-terminal status ends with the
\* timed-out error, not with the run-failed or run-cancelled error.
C2_PollBound ==
    \A i \in DOMAIN turns :
        /\ turns[i].nPolls <= maxPolls
        /\ (turns[i].pc = "done" /\ turns[i].pollCount = maxPolls
                /\ turns[i].runStatus \notin TerminalStatus) =>
              /\ turns[i].errorMsg = TimedOutMessage
              /\ turns[i].outcome = "TimedOut"
        /\ turns[i].errorMsg = TimedOutMessage =>
              turns[i].runStatus \notin TerminalStatus
        /\ turns[i].errorMsg \in {RunFailedMessage, RunCancelledMessage} =>
              turns[i].runStatus \in {"failed", "cancelled"}

\* C2 witness: a turn that read the status 60 times and timed out
C2_Witness ==
    \E i \in DOMAIN turns :
        /\ turns[i].pc = "done"
        /\ turns[i].nPolls = maxPolls
        /\ turns[i].runStatus \in {"queued", "in_progress", "requires_action",
                                   "expired"}
        /\ turns[i].errorMsg = TimedOutMessage

\* C3 (as claimed): no two turns are in flight on the same conversation.
C3_OneTurnPerConversation ==
    \A i, j \in DOMAIN turns :
        (i # j /\ InFlight(i) /\ InFlight(j)) =>
            turns[i].thread.threadId # turns[j].thread.threadId

\* The name the store holds for a conversation, if it holds the conversation
StoredName(threadId) ==
    LET thread == FindThread(threads, threadId)
    IN  IF thread = NULL THEN None ELSE Some(thread.name)

\* The system-assigned default names: `Thread ${n}`
IsDefaultName(name) == \E n \in 0..(MaxThreads + MaxTurns) : name = DefaultName(n)

\* C4 (as claimed): a turn renames a conversation only when the name the
\* store holds for it is a default name, so that a name set by auto-naming
\* is never overwritten.
C4_RenameOnlyDefault ==
    \A i \in DOMAIN turns :
        turns[i].renamedFrom # None => IsDefaultName(turns[i].renamedFrom[1])

\* C5 (as claimed): every message of the store names a thread of the store.
C5_MessagesReferenceThreads ==
    \A k \in DOMAIN messages : FindThread(threads, messages[k].threadId) # NULL

\* C5 reached: an assistant message was appended for a conversation the
\* user deleted while the turn was in flight
C5_Orphan ==
    \E k \in DOMAIN messages :
        /\ messages[k].role = "assistant"
        /\ FindThread(threads, messages[k].threadId) = NULL

\* The messages of the conversation of turn i that the store held when the
\* turn began: those before the turn's own user message
PriorOf(i) ==
    LET own == {k \in DOMAIN messages :
                   messages[k].turn = i /\ messages[k].role = "user"}
        first == CHOOSE k \in own : \A j \in own : k <= j
    IN  OfThread(SubSeq(messages, 1, first - 1), turns[i].thread.threadId)

\* C6: the history of a directCompletion call is the last 10 (or all, when
\* fewer) messages the conversation held when the turn began, in their
\* order, each as role and body, followed by the new user input.
C6_HistoryWindow ==
    \A i \in DOMAIN turns :
        (~UsesAssistant(turns[i].config) /\ NumBuilt(i, "user") = 1) =>
            LET prior == PriorOf(i)
                h == turns[i].history
                n == Len(h) - 1
            IN  /\ n = IF Len(prior) < 10 THEN Len(prior) ELSE 10
                /\ h[n + 1] = [role |-> "user", content |-> turns[i].userInput]
                /\ \A j \in 1..n :
                      /\ h[j].role = prior[Len(prior) - n + j].role
                      /\ h[j].content = prior[Len(prior) - n + j].content

\* C6 witness: a direct turn on a conversation that held more than 10
\* messages, whose history has 11 entries
C6_Witness ==
    \E i \in DOMAIN turns :
        /\ ~UsesAssistant(turns[i].config)
        /\ NumBuilt(i, "user") = 1
        /\ Len(PriorOf(i)) > 10
        /\ Len(turns[i].history) = 11

\* C7: the user message of every turn that began is in the store, once and
\* as the user typed it, while the turn is in flight and after it ended in
\* any way, unless the user deleted the conversation since.
C7_UserMessageKept ==
    \A i \in DOMAIN turns :
        ~turns[i].threadDeleted =>
            /\ NumBuilt(i, "user") = 1
            /\ \E k \in DOMAIN messages :
                  /\ messages[k].turn = i
                  /\ messages[k].role = "user"
                  /\ messages[k].content = turns[i].userInput
                  /\ messages[k].threadId = turns[i].thread.threadId

\* C7 witness: a turn timed out and its user message is in the store
C7_Witness ==
    \E i \in DOMAIN turns :
        /\ turns[i].outcome = "TimedOut"
        /\ ~turns[i].threadDeleted
        /\ NumBuilt(i, "user") = 1

\* C8: sendWebhook gives its caller true or false, never an exception, and
\* the turn that dispatched a webhook has ended without an error whatever
\* the delivery gives; with one turn, no error is shown.
C8_WebhookNeverFailsTurn ==
    /\ \A w \in DOMAIN webhooks :
          /\ webhooks[w].result \in {"pending", "true", "false"}
          /\ EndedWell(webhooks[w].turn)
          /\ turns[webhooks[w].turn].outcome = "Completed"
    /\ \A i \in DOMAIN turns :
          turns[i].nAssistant = 1 => (EndedWell(i) /\ error = NoError)

\* C8 witness: the delivery of a turn's webhook failed
C8_Witness ==
    \E w \in DOMAIN webhooks :
        /\ webhooks[w].result = "false"
        /\ turns[webhooks[w].turn].outcome = "Completed"

\* The number of webhooks turn i dispatched
NumWebhooks(i) == Cardinality({w \in DOMAIN webhooks : webhooks[w].turn = i})

\* C9: a turn that ended with an error appended no assistant message,
\* renamed nothing (the stored name is the one the turn began with) and
\* dispatched no webhook; a turn renames at most once and dispatches at most
\* one webhook, and only when it ends without an error.
C9_FailedTurnNoEffects ==
    \A i \in DOMAIN turns :
        /\ EndedBadly(i) =>
              /\ turns[i].outcome \in {"Failed", "TimedOut"}
              /\ turns[i].nAssistant = 0
              /\ NumBuilt(i, "assistant") = 0
              /\ turns[i].nRenames = 0
              /\ StoredName(turns[i].thread.threadId)
                    \in {None, Some(turns[i].thread.name)}
              /\ turns[i].nWebhooks = 0
              /\ NumWebhooks(i) = 0
        /\ turns[i].nRenames <= 1
        /\ turns[i].nWebhooks <= 1
        /\ NumWebhooks(i) <= 1
        /\ (turns[i].nRenames > 0 \/ NumWebhooks(i) > 0) => EndedWell(i)

\* C9 witness: a turn under a configuration with a webhook timed out, its
\* conversation still in the store
C9_Witness ==
    \E i \in DOMAIN turns :
        /\ turns[i].outcome = "TimedOut"
        /\ Truthy(turns[i].config.webhookURL)
        /\ StoredName(turns[i].thread.threadId) = Some(turns[i].thread.name)

\* The input is empty or whitespace only
BlankInput == \A k \in DOMAIN input : input[k] \in Whitespace

\* C10: a call of handleSendMessage with a blank input, or without an
\* active thread, or without an active configuration, changes neither the
\* messages, nor the turns (so no gateway call is made), nor the loading
\* flag, nor the error.
C10_InvalidSubmitIsNoOp ==
    [][(submitResult' # submitResult
          /\ (BlankInput \/ activeThread = NULL \/ activeConfiguration = NULL))
       => /\ messages' = messages
          /\ turns' = turns
          /\ isLoading' = isLoading
          /\ error' = error
          /\ threads' = threads]_vars

\* C10 witness: a call with a whitespace-only input was ignored while the
\* error of an earlier turn was shown
C10_Witness ==
    /\ submitResult = "ignored"
    /\ input = Blank
    /\ error # NoError

\* The gateway operations of the assisted path
AssistedOps == {"sendMessage", "runAssistant", "checkRunStatus", "getMessages"}

\* C11: a turn calls the operations of the assisted path, sendMessage first,
\* when the configuration it started under has the flag set and a non-empty
\* assistant id, and createCompletion otherwise; every call is given the
\* configuration the turn started under, whatever the store holds by then.
C11_ConfigFixedPerTurn ==
    \A i \in DOMAIN turns :
        LET rec == turns[i]
            assisted == rec.config.useAssistantApi /\ rec.config.assistantId # ""
        IN  /\ rec.calls # <<>>
            /\ \A k \in DOMAIN rec.calls :
                  /\ rec.calls[k].config = rec.config
                  /\ rec.calls[k].op \in AssistedOps <=> assisted
                  /\ rec.calls[k].op = "createCompletion" <=> ~assisted
            /\ assisted => rec.calls[1].op = "sendMessage"

\* C11 witness: an assisted turn issued calls after the user had left the
\* chat tab, and the store now holds another active configuration, or none
C11_Witness ==
    \E i \in DOMAIN turns :
        /\ turns[i].leftAt \in AssistedOps
        /\ Len(turns[i].calls) > turns[i].leftCalls
        /\ activeConfiguration # turns[i].config
        /\ turns[i].outcome = "Completed"

\* The position of the first terminal status of the scripted run, 0 when it
\* has none
FirstTerminal ==
    LET hits == {k \in DOMAIN run.script : run.script[k] \in TerminalStatus}
    IN  IF hits = {} THEN 0 ELSE CHOOSE k \in hits : \A j \in hits : k <= j

\* The operations turn i called, in order
OpsOf(i) == [k \in DOMAIN turns[i].calls |-> turns[i].calls[k].op]

\* queued, in_progress, in_progress, completed
Scenario == <<"queued", "in_progress", "in_progress", "completed">>

\* Turn i is past its polling loop and no gateway call of it failed
PolledOut(i) ==
    /\ turns[i].failedAt = "none"
    /\ turns[i].pc \in {"getMessages", "done"}

\* C12 (as claimed): the number of status reads of a turn that is past its
\* polling loop is the position of the run's first terminal status.
C12_ReadsEqualSequence ==
    \A i \in DOMAIN turns :
        (PolledOut(i) /\ FirstTerminal > 0) => turns[i].nPolls = FirstTerminal

\* C12 (amended): when runAssistant returned a non-terminal status, the
\* number of status reads of a turn that is past its polling loop is the
\* position of the first terminal status among the reads, and 60 when none
\* of the reads is terminal; it is never more while the turn polls.  For the
\* reads queued, in_progress, in_progress, completed the turn that ended
\* called sendMessage, runAssistant, checkRunStatus four times and
\* getMessages once, in this order.  When runAssistant returned a terminal
\* status, no status read is issued.
C12_ReadsUntilTerminal ==
    \A i \in DOMAIN turns :
        /\ run.start \notin TerminalStatus =>
              /\ FirstTerminal > 0 => turns[i].nPolls <= FirstTerminal
              /\ (PolledOut(i) /\ FirstTerminal > 0) =>
                    turns[i].nPolls = FirstTerminal
              /\ (PolledOut(i) /\ FirstTerminal = 0) =>
                    turns[i].nPolls = maxPolls
              /\ (PolledOut(i) /\ run.script = Scenario /\ turns[i].pc = "done") =>
                    OpsOf(i) = <<"sendMessage", "runAssistant", "checkRunStatus",
                                 "checkRunStatus", "checkRunStatus",
                                 "checkRunStatus", "getMessages">>
        /\ run.start \in TerminalStatus => turns[i].nPolls = 0

\* C12 witness: the turn on the run queued, in_progress, in_progress,
\* completed has ended with a reply after 4 status reads
C12_Witness ==
    \E i \in DOMAIN turns :
        /\ run.start = "queued"
        /\ run.script = Scenario
        /\ turns[i].outcome = "Completed"
        /\ turns[i].nPolls = 4

\* The assistant-authored entry of a list with the greatest created_at
MostRecentAssistant(data) ==
    LET hits == {k \in DOMAIN data : data[k].role = "assistant"}
    IN  data[CHOOSE k \in hits :
                \A j \in hits : data[j].created_at <= data[k].created_at]

\* C13 (as claimed): the body of the assistant message a turn appended is
\* the text of the most recently created assistant entry of the list
\* getMessages returned, in whatever order the list is.
C13_ReplyFromMostRecent ==
    \A i \in DOMAIN turns :
        (turns[i].outcome = "Completed" /\ turns[i].listed # <<>>) =>
            \A k \in DOMAIN messages :
                (messages[k].turn = i /\ messages[k].role = "assistant") =>
                    messages[k].content =
                        ExtractContent(MostRecentAssistant(turns[i].listed))

\* C13 reached: the list came oldest first and the reply appended is the
\* earlier one
C13_StaleReply ==
    \E i \in DOMAIN turns : \E k \in DOMAIN messages :
        /\ turns[i].listed = OldestFirst
        /\ messages[k].turn = i
        /\ messages[k].role = "assistant"
        /\ messages[k].content = ExtractContent(EarlierReply)

\* C14 (as claimed): a turn the user left (the chat tab was closed) while it
\* was polling issues no further gateway call and appends no assistant
\* message, renames nothing and dispatches no webhook.
C14_LeavingStopsTurn ==
    \A i \in DOMAIN turns :
        turns[i].leftAt \in {"sleep", "checkRunStatus"} =>
            /\ Len(turns[i].calls) = turns[i].leftCalls
            /\ turns[i].nAssistant = 0
            /\ turns[i].nRenames = 0
            /\ turns[i].nWebhooks = 0

\* C14 reached: a turn the user left during the 1 s sleep of its polling
\* loop went on to read the status, list the messages and append a reply
C14_RepliedAfterLeaving ==
    \E i \in DOMAIN turns :
        /\ turns[i].leftAt = "sleep"
        /\ Len(turns[i].calls) >= turns[i].leftCalls + 2
        /\ NumBuilt(i, "assistant") = 1
        /\ turns[i].nRenames = 1

\* The positions in the store of the messages turn i built with role `role`
Built(i, role) ==
    {k \in DOMAIN messages : messages[k].turn = i /\ messages[k].role = role}

\* C15: every message a turn appended carries the threadId of the thread the
\* turn was started on; the messages getThreadMessages gives for a thread
\* are the messages of the store with its threadId, all of them and in the
\* order of the store, a turn's user message before its reply.
C15_NoCrossContamination ==
    /\ \A k \in DOMAIN messages : \A i \in DOMAIN turns :
          messages[k].turn = i =>
              messages[k].threadId = turns[i].thread.threadId
    /\ \A t \in DOMAIN threads :
          LET c == threads[t].threadId
              got == getThreadMessages(Store, c)
          IN  /\ got = SelectSeq(messages, LAMBDA m : m.threadId = c)
              /\ \A k \in DOMAIN got :
                    /\ got[k].threadId = c
                    /\ turns[got[k].turn].thread.threadId = c
    /\ \A i \in DOMAIN turns :
          \A u \in Built(i, "user") : \A a \in Built(i, "assistant") : u < a

\* C15 witness: two turns on two conversations were in flight together and
\* both ended with a reply; their four messages are interleaved in the store
C15_Witness ==
    /\ Len(turns) = 2
    /\ turns[1].thread.threadId # turns[2].thread.threadId
    /\ Len(messages) = 4
    /\ messages[1].turn = 1 /\ messages[2].turn = 2
    /\ messages[3].turn = 2 /\ messages[4].turn = 1
    /\ Len(getThreadMessages(Store, turns[1].thread.threadId)) = 2

\* The number of calls of operation op that turn i issued
NumCalls(i, op) ==
    Cardinality({k \in DOMAIN turns[i].calls : turns[i].calls[k].op = op})

\* C16: a turn calls sendMessage, runAssistant, getMessages and
\* createCompletion at most once each and checkRunStatus once per poll; a
\* turn of which a gateway call failed has ended as Failed with an error,
\* and the call that failed is the last one it issued.
C16_NoRetry ==
    \A i \in DOMAIN turns :
        /\ \A op \in {"sendMessage", "runAssistant", "getMessages",
                       "createCompletion"} : NumCalls(i, op) <= 1
        /\ NumCalls(i, "checkRunStatus") = turns[i].nPolls
        /\ turns[i].failedAt # "none" =>
              /\ turns[i].pc = "done"
              /\ turns[i].outcome = "Failed"
              /\ turns[i].errorMsg # ""
              /\ turns[i].calls[Len(turns[i].calls)].op = turns[i].failedAt
              /\ turns[i].nAssistant = 0

\* C16 witness: the third status read of a turn failed and the turn ended
C16_Witness ==
    \E i \in DOMAIN turns :
        /\ turns[i].failedAt = "checkRunStatus"
        /\ turns[i].nPolls = 3
        /\ turns[i].outcome = "Failed"
        /\ Len(turns[i].calls) = 5

\* The kind of failure the spec's taxonomy gives an HTTP status (0: no
\* response)
KindOfCode(f) ==
    CASE f = 401 -> "AuthError"
      [] f = 429 -> "RateLimited"
      [] f = 404 -> "NotFound"
      [] f = 400 -> "BadRequest"
      [] f = 0 -> "NetworkError"
      [] OTHER -> "Other"

\* The kind of failure an error message tells the user; the message of an
\* axios error is taken to tell the kind of the status code it names
KindOfMessage(msg) ==
    CASE msg = "Authentication failed. Please check your API key." -> "AuthError"
      [] msg = "Request failed with status code 401" -> "AuthError"
      [] msg = "Rate limit exceeded. Please try again later." -> "RateLimited"
      [] msg = "Request failed with status code 429" -> "RateLimited"
      [] msg = "Thread not found. It may have expired or been deleted." -> "NotFound"
      [] msg = "Thread or assistant not found." -> "NotFound"
      [] msg = "Request failed with status code 404" -> "NotFound"
      [] msg = "Bad request: Invalid request format" -> "BadRequest"
      [] msg = "Bad request: Invalid request" -> "BadRequest"
      [] msg = "Request failed with status code 400" -> "BadRequest"
      [] msg = "Network Error" -> "NetworkError"
      [] OTHER -> "Other"

\* C17 (as claimed): the error a turn ends with after a gateway call failed
\* tells the kind of the failure, whichever call it was: 401 AuthError, 429
\* RateLimited, 404 NotFound, 400 BadRequest, no response NetworkError.
C17_FailureClassified ==
    \A i \in DOMAIN turns :
        turns[i].failedAt # "none" =>
            KindOfMessage(turns[i].errorMsg) = KindOfCode(turns[i].failureCode)

\* C17 reached: runAssistant was refused with 401 and the turn ended with
\* the general message of runAssistant
C17_AuthErrorLost ==
    \E i \in DOMAIN turns :
        /\ turns[i].failedAt = "runAssistant"
        /\ turns[i].failureCode = 401
        /\ error = "Failed to run assistant. Please try again."

\* C18 (as claimed): no two threads of the store have the same threadId.
C18_ThreadIdsUnique ==
    \A a, b \in DOMAIN threads :
        a # b => threads[a].threadId # threads[b].threadId

\* C18 reached: two threads created in the same millisecond share their
\* local identifier
C18_SameMillisecond ==
    /\ Len(threads) = 2
    /\ threads[1].threadId = threads[2].threadId
    /\ threads[1].threadId.kind = "local"
    /\ threads[1].name # threads[2].name

\* C19 (as claimed): under a configuration that selects the assisted path
\* every thread carries an identifier the provider issued, and under one that
\* selects direct completion a locally generated one.  (The configuration
\* does not change in SpecCreate.)
C19_IdMatchesMode ==
    \A t \in DOMAIN threads :
        threads[t].threadId.kind =
            IF UsesAssistant(activeConfiguration) THEN "remote" ELSE "local"

\* C19 reached: createThread failed, the user accepted the fallback, and the
\* active thread of an assisted configuration has a local identifier
C19_LocalUnderAssisted ==
    /\ UsesAssistant(activeConfiguration)
    /\ activeThread # NULL
    /\ activeThread.threadId.kind = "local"

\* C20: when every timer fires and every gateway call returns or fails, a
\* turn that began ends; it ends with one outcome, Completed, Failed or
\* TimedOut, which it keeps, and the step that ends it leaves the loading
\* flag cleared.
C20_TurnTerminates ==
    /\ (Len(turns) >= 1) ~> (Len(turns) >= 1 /\ turns[1].pc = "done")
    /\ [](\A i \in DOMAIN turns :
            /\ turns[i].pc = "done" =>
                  turns[i].outcome \in {"Completed", "Failed", "TimedOut"}
            /\ turns[i].pc # "done" => turns[i].outcome = "none")
    /\ [][\A i \in DOMAIN turns :
            /\ (turns[i].pc # "done" /\ turns'[i].pc = "done") => ~isLoading'
            /\ turns[i].pc = "done" =>
                  /\ turns'[i].pc = "done"
                  /\ turns'[i].outcome = turns[i].outcome]_vars

\* C20 witness: a turn whose 60th status read returned completed has ended
\* with a reply and the loading flag is cleared
C20_Witness ==
    \E i \in DOMAIN turns :
        /\ turns[i].pc = "done"
        /\ turns[i].outcome = "Completed"
        /\ turns[i].nPolls = maxPolls
        /\ ~isLoading

\* The times at which turn i called operation op
CallTimes(i, op) ==
    {turns[i].calls[k].at : k \in {j \in DOMAIN turns[i].calls :
                                      turns[i].calls[j].op = op}}

\* C21: the assistant message of a turn carries the time at which the reply
\* was extracted: the step that ends a turn as Completed appends one
\* assistant message whose timestamp is the time of that step.  The
\* timestamp is therefore not less than the time the status completed was
\* read (when getMessages was called), the timestamp of the turn's user
\* message and the time the turn began.
C21_StampedAtExtraction ==
    /\ [][\A i \in DOMAIN turns :
            (turns[i].pc # "done" /\ turns'[i].outcome = "Completed") =>
                /\ Len(messages') = Len(messages) + 1
                /\ messages'[Len(messages')].turn = i
                /\ messages'[Len(messages')].role = "assistant"
                /\ messages'[Len(messages')].timestamp = now']_vars
    /\ [](\A i \in DOMAIN turns : \A a \in Built(i, "assistant") :
            /\ \A u \in Built(i, "user") :
                  messages[a].timestamp >= messages[u].timestamp
            /\ messages[a].timestamp >= turns[i].calls[1].at
            /\ \A t \in CallTimes(i, "getMessages") :
                  messages[a].timestamp >= t)

\* C21 witness: an assisted turn began at time 0, read the status completed
\* at time 1 and extracted the reply at time 2, which is the timestamp of its
\* assistant message
C21_Witness ==
    \E i \in DOMAIN turns : \E a \in Built(i, "assistant") :
        /\ turns[i].calls[1].at = 0
        /\ turns[i].nPolls >= 1
        /\ CallTimes(i, "getMessages") = {1}
        /\ messages[a].timestamp = 2

\* The content of the first choice createCompletion returned to turn i, None
\* when it has not returned or returned no choice
ReplyText(i) ==
    IF turns[i].completion = None \/ turns[i].completion[1] = <<>> THEN None
    ELSE Some(turns[i].completion[1][1].message.content)

\* C22: a turn under a configuration that selects direct completion calls
\* createCompletion once and calls nothing else; when the completion it got
\* has a non-empty first choice, the store has gained exactly one assistant
\* message of the turn, on the turn's conversation, whose body is that text.
\* On a conversation without messages the history sent with the input
\* 'Hello' is the one entry {user, 'Hello'}, and after the reply 'Hi there'
\* the conversation holds the user's 'Hello' and the assistant's 'Hi there'.
C22_DirectTurn ==
    \A i \in DOMAIN turns :
        ~UsesAssistant(turns[i].config) =>
            /\ OpsOf(i) = <<"createCompletion">>
            /\ NumBuilt(i, "assistant") <= 1
            /\ (ReplyText(i) # None /\ ReplyText(i)[1] # <<>>) =>
                  /\ NumBuilt(i, "assistant") = 1
                  /\ \A a \in Built(i, "assistant") :
                        /\ messages[a].content = ReplyText(i)[1]
                        /\ messages[a].threadId = turns[i].thread.threadId
            /\ (PriorOf(i) = <<>> /\ turns[i].userInput = Hello) =>
                  /\ turns[i].history = <<[role |-> "user", content |-> Hello]>>
                  /\ ReplyText(i) = Some(HiThere) =>
                        /\ Len(messages) >= 2
                        /\ messages[1].role = "user"
                        /\ messages[1].content = Hello
                        /\ messages[2].role = "assistant"
                        /\ messages[2].content = HiThere

\* C22 witness: on a conversation without messages the turn with the input
\* 'Hello' got two choices, the first 'Hi there', and has ended
C22_Witness ==
    \E i \in DOMAIN turns :
        /\ PriorOf(i) = <<>>
        /\ turns[i].userInput = Hello
        /\ turns[i].completion = Some(<<Choice(HiThere), Choice(Hi)>>)
        /\ turns[i].pc = "done"
        /\ Len(messages) = 2

\* C23: the gateway calls of an assisted turn are, in this order, one
\* sendMessage, one runAssistant, any number of checkRunStatus and then at
\* most one getMessages, which is the last call.  runAssistant is called only
\* when sendMessage did not fail.  At most one status read is outstanding:
\* the reads called are the reads that returned (pollCount) and, when the
\* turn awaits a read or ended on a failed one, one more.  getMessages is
\* called only when the last status read is completed, and the call the
\* turn awaits is the last one it issued.
C23_CallOrder ==
    \A i \in DOMAIN turns :
        UsesAssistant(turns[i].config) =>
            LET ops == OpsOf(i)
                n == Len(ops)
            IN  /\ \A k \in 1..n :
                      /\ k = 1 => ops[k] = "sendMessage"
                      /\ k = 2 => ops[k] = "runAssistant"
                      /\ k >= 3 => \/ ops[k] = "checkRunStatus"
                                   \/ ops[k] = "getMessages" /\ k = n
                /\ n >= 2 => turns[i].failedAt # "sendMessage"
                /\ n >= 3 => turns[i].failedAt # "runAssistant"
                /\ NumCalls(i, "checkRunStatus") =
                      turns[i].pollCount +
                        (IF turns[i].pc = "checkRunStatus"
                            \/ turns[i].failedAt = "checkRunStatus"
                         THEN 1 ELSE 0)
                /\ NumCalls(i, "getMessages") = 1 =>
                      turns[i].runStatus = "completed"
                /\ turns[i].pc \in AssistedOps => ops[n] = turns[i].pc

\* C23 witness: an assisted turn that called sendMessage, runAssistant,
\* checkRunStatus twice and getMessages has ended with a reply
C23_Witness ==
    \E i \in DOMAIN turns :
        /\ OpsOf(i) = <<"sendMessage", "runAssistant", "checkRunStatus",
                        "checkRunStatus", "getMessages">>
        /\ turns[i].outcome = "Completed"

\* Turn i awaits runAssistant or a status read
AwaitsStatus(i) == turns[i].pc \in {"runAssistant", "checkRunStatus"}

\* C24: when a status comes back to a turn (from runAssistant or from a
\* status read) and it is completed, failed or cancelled, the turn leaves
\* the polling loop in that step and never reads the status again; when it
\* is any other status (queued, in_progress, requires_action, expired) the
\* turn goes on to its next read if it has made fewer than 60, and ends its
\* polling only at the 60th.  So a turn that sleeps or awaits a read has so
\* far only seen non-terminal statuses.
C24_PollingStopsAtTerminal ==
    /\ [][\A i \in DOMAIN turns :
            /\ (AwaitsStatus(i) /\ turns'[i].pc # turns[i].pc
                    /\ turns'[i].failedAt = "none") =>
                  LET st == turns'[i].runStatus
                  IN  /\ st \in {"completed", "failed", "cancelled"} =>
                            turns'[i].pc \in {"getMessages", "done"}
                      /\ (st \notin {"completed", "failed", "cancelled"}
                            /\ turns'[i].pollCount < 60) =>
                            turns'[i].pc = "sleep"
                      /\ (st \notin {"completed", "failed", "cancelled"}
                            /\ turns'[i].pollCount >= 60) =>
                            turns'[i].pc = "done"
            /\ turns[i].runStatus \in {"completed", "failed", "cancelled"} =>
                  /\ turns'[i].nPolls = turns[i].nPolls
                  /\ turns'[i].runStatus = turns[i].runStatus]_vars
    /\ [](\A i \in DOMAIN turns :
            /\ turns[i].pc \in {"sleep", "checkRunStatus"} =>
                  /\ turns[i].runStatus
                        \in {"queued", "in_progress", "requires_action", "expired"}
                  /\ turns[i].pollCount < 60
            /\ turns[i].nPolls <= 60)

\* C24 witness: a turn whose second read returned expired is making its
\* third read
C24_Witness ==
    \E i \in DOMAIN turns :
        /\ turns[i].runStatus = "expired"
        /\ turns[i].pollCount = 2
        /\ turns[i].pc = "checkRunStatus"
        /\ turns[i].nPolls = 3

\* Turn i has left its polling loop with the status st, no gateway call of
\* it having failed
RunEndedAs(i, st) ==
    /\ turns[i].pc = "done"
    /\ turns[i].failedAt = "none"
    /\ NumCalls(i, "runAssistant") = 1
    /\ turns[i].runStatus = st

\* C25: a turn ends with the run-failed error exactly when its run's last
\* status is failed, with the run-cancelled error exactly when it is
\* cancelled, and with the timed-out error exactly when the 60th read left
\* the status non-terminal: the three errors tell the three cases apart.  A
\* turn that ended with one of them is Failed (TimedOut for the third), has
\* called runAssistant once and getMessages never, and calls nothing
\* afterwards.
C25_RunFailureErrors ==
    /\ [](\A i \in DOMAIN turns :
            /\ turns[i].errorMsg = "Assistant run failed. Please try again."
                  <=> RunEndedAs(i, "failed")
            /\ turns[i].errorMsg = "Assistant run was cancelled."
                  <=> RunEndedAs(i, "cancelled")
            /\ turns[i].errorMsg = "Assistant run timed out. Please try again."
                  <=> \E st \in RunStatus \ {"completed", "failed", "cancelled"} :
                         RunEndedAs(i, st)
            /\ turns[i].errorMsg \in {"Assistant run failed. Please try again.",
                                      "Assistant run was cancelled.",
                                      "Assistant run timed out. Please try again."} =>
                  /\ turns[i].pc = "done"
                  /\ turns[i].outcome \in {"Failed", "TimedOut"}
                  /\ turns[i].outcome = "TimedOut" <=>
                        turns[i].errorMsg = "Assistant run timed out. Please try again."
                  /\ NumCalls(i, "getMessages") = 0
                  /\ NumCalls(i, "runAssistant") = 1
                  /\ turns[i].nAssistant = 0)
    /\ [][\A i \in DOMAIN turns :
            turns[i].pc = "done" =>
                /\ turns'[i].calls = turns[i].calls
                /\ turns'[i].errorMsg = turns[i].errorMsg]_vars

\* C25 witness: the second status read of a turn returned cancelled and the
\* turn has ended with the run-cancelled error shown
C25_Witness ==
    \E i \in DOMAIN turns :
        /\ RunEndedAs(i, "cancelled")
        /\ turns[i].nPolls = 2
        /\ error = "Assistant run was cancelled."
        /\ turns[i].outcome = "Failed"

\* getMessages has returned its list to turn i
Listed(i) ==
    /\ NumCalls(i, "getMessages") = 1
    /\ turns[i].pc = "done"
    /\ turns[i].failedAt = "none"

\* C26: a turn whose run completed and to which getMessages returned a list
\* without an entry of role assistant (an empty list, or user entries only)
\* has ended as Failed with the error 'No assistant response found in the
\* thread', which is not the run-failed error, and no assistant message of
\* the turn was appended; the error is given in no other case.
C26_NoReplyFound ==
    \A i \in DOMAIN turns :
        LET none == \A k \in DOMAIN turns[i].listed :
                        turns[i].listed[k].role # "assistant"
        IN  /\ (Listed(i) /\ none) =>
                  /\ turns[i].runStatus = "completed"
                  /\ turns[i].errorMsg = "No assistant response found in the thread"
                  /\ turns[i].errorMsg # RunFailedMessage
                  /\ turns[i].outcome = "Failed"
                  /\ turns[i].nAssistant = 0
                  /\ NumBuilt(i, "assistant") = 0
            /\ turns[i].errorMsg = "No assistant response found in the thread" =>
                  (Listed(i) /\ none)
            /\ (Listed(i) /\ ~none) => turns[i].outcome = "Completed"

\* C26 witness: the run completed after a read, the list held the user's
\* entry only, and the no-reply error is shown
C26_Witness ==
    \E i \in DOMAIN turns :
        /\ Listed(i)
        /\ turns[i].nPolls >= 1
        /\ turns[i].listed = <<UserEntry>>
        /\ error = "No assistant response found in the thread"

\* createCompletion returned to turn i a completion without choices, or one
\* whose first choice has an empty content
EmptyCompletion(i) ==
    /\ turns[i].completion # None
    /\ \/ turns[i].completion[1] = <<>>
       \/ turns[i].completion[1][1].message.content = <<>>

\* C27: a direct turn that got a completion without choices, or with an
\* empty content in its first choice, has ended as Failed with the error 'No
\* response received from the model'; it appended no assistant message, the
\* conversation has the name it had when the turn began, and the turn
\* dispatched no webhook.  The error is given in no other case.
C27_EmptyCompletion ==
    \A i \in DOMAIN turns :
        /\ EmptyCompletion(i) =>
              /\ turns[i].pc = "done"
              /\ turns[i].outcome = "Failed"
              /\ turns[i].errorMsg = "No response received from the model"
              /\ turns[i].nAssistant = 0
              /\ NumBuilt(i, "assistant") = 0
              /\ turns[i].nRenames = 0
              /\ turns[i].renamedFrom = None
              /\ (i = Len(turns)) =>
                    StoredName(turns[i].thread.threadId) = Some(turns[i].thread.name)
              /\ turns[i].nWebhooks = 0
              /\ NumWebhooks(i) = 0
        /\ turns[i].errorMsg = "No response received from the model" =>
              EmptyCompletion(i)

\* C27 witness: under a configuration with a webhook target, the first turn
\* of a conversation still named 'Thread 1' got two choices of which the
\* first is empty; the error is shown and no webhook was dispatched
C27_Witness ==
    \E i \in DOMAIN turns :
        /\ turns[i].completion = Some(<<Choice(<<>>), Choice(Hi)>>)
        /\ Truthy(turns[i].config.webhookURL)
        /\ HasDefaultName(turns[i].thread)
        /\ StoredName(turns[i].thread.threadId) = Some(DefaultName(0))
        /\ error = "No response received from the model"
        /\ webhooks = <<>>

\* C28: a turn that ended without an error has dispatched one webhook when
\* the webhookURL of its configuration is non-empty and none when it is
\* empty, and no other turn has dispatched any.  The webhook goes to that
\* URL and its payload has the turn's user input as prompt, the threadId of
\* the turn's conversation and the model of the turn's configuration.  The
\* step that dispatches it ends the turn and clears the loading flag while
\* the delivery is pending, and the delivery's result changes nothing of the
\* turn.
C28_WebhookOnSuccess ==
    /\ [](\A i \in DOMAIN turns :
            /\ EndedWell(i) =>
                  NumWebhooks(i) = IF turns[i].config.webhookURL # "" THEN 1 ELSE 0
            /\ ~EndedWell(i) => NumWebhooks(i) = 0)
    /\ [](\A w \in DOMAIN webhooks :
            LET rec == turns[webhooks[w].turn]
            IN  /\ webhooks[w].url = rec.config.webhookURL
                /\ webhooks[w].url # ""
                /\ webhooks[w].payload.prompt = rec.userInput
                /\ webhooks[w].payload.threadId = rec.thread.threadId
                /\ webhooks[w].payload.model = rec.config.model
                /\ webhooks[w].payload.userName = "User")
    /\ [][/\ Len(webhooks') > Len(webhooks) =>
              /\ Len(webhooks') = Len(webhooks) + 1
              /\ webhooks'[Len(webhooks')].result = "pending"
              /\ turns[webhooks'[Len(webhooks')].turn].pc # "done"
              /\ turns'[webhooks'[Len(webhooks')].turn].pc = "done"
              /\ ~isLoading'
          /\ \A w \in DOMAIN webhooks :
                webhooks'[w].result # webhooks[w].result =>
                    /\ webhooks[w].result = "pending"
                    /\ turns' = turns
                    /\ error' = error
                    /\ isLoading' = isLoading]_vars

\* C28 witness: an assisted turn with the input 'hi' under a configuration
\* with a webhook target has ended, the loading flag is cleared and its
\* webhook, with the prompt 'hi', is still pending
C28_Witness ==
    \E w \in DOMAIN webhooks :
        /\ webhooks[w].result = "pending"
        /\ webhooks[w].payload.prompt = Hi
        /\ webhooks[w].payload.threadId = RemoteId(1)
        /\ UsesAssistant(turns[webhooks[w].turn].config)
        /\ turns[webhooks[w].turn].outcome = "Completed"
        /\ ~isLoading

\* Sequence a is a prefix of sequence b
IsPrefix(a, b) == Len(a) <= Len(b) /\ SubSeq(b, 1, Len(a)) = a

\* The threadIds of the threads created so far
ThreadIds ==
    {RemoteId(k) : k \in 0..MaxThreads + 1} \cup {LocalId(t) : t \in 0..MaxThreads + 1}

\* C29: every step other than the deletion of a thread, so every step of a
\* turn, leaves the messages the store held where they were and as they
\* were (role, body, timestamp and all other fields) and at most appends
\* one: the messages of every conversation before the step are a prefix of
\* its messages after it.  A step in which a turn begins or appends its
\* reply adds exactly one message, on the turn's conversation.
C29_AppendOnly ==
    [][Len(threads') >= Len(threads) =>
          /\ IsPrefix(messages, messages')
          /\ Len(messages') <= Len(messages) + 1
          /\ \A c \in ThreadIds :
                IsPrefix(OfThread(messages, c), OfThread(messages', c))
          /\ \A k \in DOMAIN messages :
                /\ messages'[k].role = messages[k].role
                /\ messages'[k].content = messages[k].content
                /\ messages'[k].timestamp = messages[k].timestamp
          /\ Len(turns') > Len(turns) =>
                /\ Len(messages') = Len(messages) + 1
                /\ messages'[Len(messages')].threadId =
                      turns'[Len(turns')].thread.threadId]_vars

\* C29 witness: two turns on one conversation, the second begun while the
\* first was in flight on it; the conversation holds their four messages,
\* each user message before the reply to it
C29_Witness ==
    /\ Len(turns) = 2
    /\ turns[1].thread.threadId = turns[2].thread.threadId
    /\ turns[1].pc = "done" /\ turns[2].pc = "done"
    /\ Len(getThreadMessages(Store, turns[1].thread.threadId)) = 4
    /\ messages[1].role = "user" /\ messages[2].role = "user"

\* The whitespace-separated tokens of a text: its maximal runs of characters
\* that are not whitespace
RECURSIVE TokensAcc(_, _)
TokensAcc(s, cur) ==
    IF s = <<>> THEN (IF cur = <<>> THEN <<>> ELSE <<cur>>)
    ELSE IF Head(s) \in Whitespace
         THEN (IF cur = <<>> THEN <<>> ELSE <<cur>>) \o TokensAcc(Tail(s), <<>>)
         ELSE TokensAcc(Tail(s), Append(cur, Head(s)))

Tokens(s) == TokensAcc(s, <<>>)

\* The first four whitespace-separated tokens joined by single spaces, with
\* an ellipsis after them
NameFromTokens(userInput) ==
    Join(SubSeq(Tokens(userInput), 1, Min(4, Len(Tokens(userInput)))), <<" ">>)
        \o <<".", ".", ".">>

\* C30 (as claimed): the name a turn gives a conversation that had its
\* default name is made of the first four whitespace-separated tokens of the
\* turn's input joined by single spaces, followed by an ellipsis.
C30_NameFromFirstFourTokens ==
    \A i \in DOMAIN turns :
        (EndedWell(i) /\ HasDefaultName(turns[i].thread)) =>
            StoredName(turns[i].thread.threadId) =
                Some(NameFromTokens(turns[i].userInput))

\* C30 reached: the input 'a', two spaces, 'a a a' has the tokens a, a, a, a
\* and the conversation was named 'a', two spaces, 'a a...': the empty text
\* between the two spaces counts as a word and the fourth token is left out
C30_EmptyWordInName ==
    \E i \in DOMAIN turns :
        /\ turns[i].userInput = <<"a", " ", " ", "a", " ", "a", " ", "a">>
        /\ Tokens(turns[i].userInput) = <<<<"a">>, <<"a">>, <<"a">>, <<"a">>>>
        /\ EndedWell(i)
        /\ StoredName(turns[i].thread.threadId) =
              Some(<<"a", " ", " ", "a", " ", "a", ".", ".", ".">>)

\* The texts of a sequence one after the other, nothing between them
RECURSIVE Concat(_)
Concat(texts) ==
    IF texts = <<>> THEN <<>> ELSE Head(texts) \o Concat(Tail(texts))

\* The values of the segments of type text of an entry, in order
TextSegments(entry) ==
    LET texts == SelectSeq(entry.content, LAMBDA c : c.type = "text")
    IN  [k \in DOMAIN texts |->
            IF texts[k].value = None THEN <<>> ELSE texts[k].value[1]]

\* C31 (as claimed): the body of the assistant message an assisted turn
\* appended is the text segments of the assistant entry it selected from the
\* list, one after the other in their order, the other segments left out
\* and nothing put between two segments.
C31_ReplyIsConcatenation ==
    \A i \in DOMAIN turns : \A a \in Built(i, "assistant") :
        UsesAssistant(turns[i].config) =>
            messages[a].content =
                Concat(TextSegments(FindAssistant(turns[i].listed)))

\* C31 reached: the entry selected has the segments text 'a', image, text
\* 'b', and the body appended is 'a', a newline, 'b'
C31_NewlineBetweenSegments ==
    \E i \in DOMAIN turns : \E a \in Built(i, "assistant") :
        /\ FindAssistant(turns[i].listed) = MixedEntry
        /\ messages[a].content = <<"a", "\n", "b">>

\* A turn or a thread creation is in flight
Busy == creation # NULL \/ \E i \in DOMAIN turns : InFlight(i)

\* C32 (as claimed): the loading flag is set exactly when a turn or a thread
\* creation is in flight.
C32_LoadingWhileInFlight == isLoading <=> Busy

\* C32 reached: a thread was created while a turn was in flight; the turn
\* still awaits its gateway call and the loading flag is cleared, so that
\* the textarea and the send button are enabled again
C32_ClearedWhileInFlight ==
    \E i \in DOMAIN turns :
        /\ InFlight(i)
        /\ turns[i].pc \in AssistedOps \cup {"createCompletion"}
        /\ Len(threads) = 2
        /\ creation = NULL
        /\ ~isLoading
        /\ CanType

\* C33 (as claimed): the thread a turn renamed keeps its threadId and its
\* createdAt, and its lastUpdated in the store is not earlier than the
\* timestamp of the assistant message the turn appended.
C33_RenameKeepsTimestamps ==
    \A i \in DOMAIN turns : \A a \in Built(i, "assistant") :
        LET thread == FindThread(threads, turns[i].thread.threadId)
        IN  (turns[i].nRenames = 1 /\ thread # NULL) =>
                /\ thread.threadId = turns[i].thread.threadId
                /\ thread.createdAt = turns[i].thread.createdAt
                /\ thread.lastUpdated >= messages[a].timestamp

\* C33 reached: the thread was created at time 0, the turn began at time 1
\* and appended its reply at time 2; the thread has its new name and its
\* lastUpdated is 0 again
C33_StaleLastUpdated ==
    \E i \in DOMAIN turns : \E a \in Built(i, "assistant") :
        LET thread == FindThread(threads, turns[i].thread.threadId)
        IN  /\ turns[i].calls[1].at = 1
            /\ messages[a].timestamp = 2
            /\ thread # NULL
            /\ thread.name = AutoName(turns[i].userInput)
            /\ thread.lastUpdated = 0
            /\ activeThread = thread

\* The created_at of the newest user entry of a list: the message the turn
\* posted
PostedAt(data) ==
    LET users == {k \in DOMAIN data : data[k].role = "user"}
    IN  data[CHOOSE k \in users :
                \A j \in users : data[j].created_at <= data[k].created_at]
            .created_at

\* C34 (as claimed): the body of the assistant message an assisted turn
\* appended is the text of an assistant entry of the list that was created
\* after the message the turn posted.
C34_ReplyFromThisRun ==
    \A i \in DOMAIN turns : \A a \in Built(i, "assistant") :
        \E k \in DOMAIN turns[i].listed :
            /\ turns[i].listed[k].role = "assistant"
            /\ turns[i].listed[k].created_at > PostedAt(turns[i].listed)
            /\ messages[a].content = ExtractContent(turns[i].listed[k])

\* C34 reached: the run completed without adding a message, the list came
\* newest first, and the turn appended the reply of the earlier exchange
C34_EarlierReplyAppended ==
    \E i \in DOMAIN turns : \E a \in Built(i, "assistant") :
        /\ turns[i].listed = NoNewReply
        /\ turns[i].outcome = "Completed"
        /\ messages[a].content = ExtractContent(EarlierReply)
        /\ EarlierReply.created_at < NewUserEntry.created_at

\* C35 (as claimed): every assistant message a turn appended has a
\* non-empty body.
C35_ReplyNotEmpty ==
    \A k \in DOMAIN messages :
        (messages[k].role = "assistant" /\ messages[k].turn \in DOMAIN turns) =>
            messages[k].content # <<>>

\* C35 reached: the assistant entry of the list has an image segment only;
\* the turn ended Completed and its assistant message has an empty body
C35_EmptyReplyAppended ==
    \E i \in DOMAIN turns : \E a \in Built(i, "assistant") :
        /\ turns[i].listed = <<ImageOnlyEntry>>
        /\ turns[i].outcome = "Completed"
        /\ messages[a].content = <<>>
        /\ error = NoError

\* C36: a turn whose 60th status read returned completed has called
\* getMessages and does not time out: once the list has come back with an
\* assistant entry it is Completed.  After the 60th read the turn times out
\* only when that read returned a non-terminal status, and ends with the
\* run-failed or run-cancelled error when it returned failed or cancelled.
C36_LastReadDecides ==
    \A i \in DOMAIN turns :
        turns[i].pollCount = maxPolls =>
            /\ turns[i].nPolls = maxPolls
            /\ turns[i].runStatus = "completed" =>
                  /\ NumCalls(i, "getMessages") = 1
                  /\ turns[i].outcome # "TimedOut"
                  /\ turns[i].errorMsg # TimedOutMessage
                  /\ (Listed(i) /\ FindAssistant(turns[i].listed) # NULL) =>
                        /\ turns[i].outcome = "Completed"
                        /\ NumBuilt(i, "assistant") = 1 \/ turns[i].threadDeleted
            /\ turns[i].runStatus = "failed" => turns[i].errorMsg = RunFailedMessage
            /\ turns[i].runStatus = "cancelled" =>
                  turns[i].errorMsg = RunCancelledMessage
            /\ turns[i].runStatus \notin {"completed", "failed", "cancelled"} =>
                  turns[i].outcome = "TimedOut"

\* C36 witness: 59 reads returned a non-terminal status and the 60th
\* completed; the list came back and the reply is in the store
C36_Witness ==
    \E i \in DOMAIN turns :
        /\ turns[i].pollCount = maxPolls
        /\ turns[i].runStatus = "completed"
        /\ turns[i].listed = <<UserEntry, ReplyEntry>>
        /\ turns[i].outcome = "Completed"
        /\ NumBuilt(i, "assistant") = 1

\* C37: when runAssistant returns the status completed, the turn calls
\* getMessages in that step, its third call; when it returns failed or
\* cancelled the turn ends in that step as Failed with the run-failed or the
\* run-cancelled error shown and the loading flag cleared.  In both cases
\* the turn never reads the status.
C37_TerminalAtStart ==
    /\ [][\A i \in DOMAIN turns :
            (turns[i].pc = "runAssistant" /\ turns'[i].pc # "runAssistant"
                /\ turns'[i].failedAt = "none") =>
                LET rec == turns'[i]
                IN  /\ rec.runStatus = "completed" =>
                          /\ rec.pc = "getMessages"
                          /\ [k \in DOMAIN rec.calls |-> rec.calls[k].op] =
                                <<"sendMessage", "runAssistant", "getMessages">>
                    /\ rec.runStatus = "failed" =>
                          /\ rec.pc = "done" /\ rec.outcome = "Failed"
                          /\ error' = "Assistant run failed. Please try again."
                          /\ ~isLoading'
                    /\ rec.runStatus = "cancelled" =>
                          /\ rec.pc = "done" /\ rec.outcome = "Failed"
                          /\ error' = "Assistant run was cancelled."
                          /\ ~isLoading'
                    /\ rec.runStatus \in {"completed", "failed", "cancelled"}
                          <=> rec.pc # "sleep"]_vars
    /\ [](\A i \in DOMAIN turns :
            (turns[i].pollCount = 0
                /\ turns[i].runStatus \in {"completed", "failed", "cancelled"}) =>
                /\ turns[i].nPolls = 0
                /\ NumCalls(i, "checkRunStatus") = 0)

\* C37 witness: runAssistant returned completed and the turn ended with a
\* reply after the three calls sendMessage, runAssistant, getMessages
C37_Witness ==
    \E i \in DOMAIN turns :
        /\ OpsOf(i) = <<"sendMessage", "runAssistant", "getMessages">>
        /\ turns[i].outcome = "Completed"
        /\ turns[i].nPolls = 0

\* C38 (as claimed): no two configurations of the store have the same id.
C38_ConfigIdsUnique ==
    \A a, b \in DOMAIN configurations :
        a # b => configurations[a].id # configurations[b].id

\* C38 reached: a file of two configurations was imported into an empty
\* store within one millisecond; the store holds a direct and an assisted
\* configuration with the same id, which is neither of the ids in the file
C38_ImportedTwins ==
    /\ Len(configurations) = 2
    /\ configurations[1].id = configurations[2].id
    /\ configurations[1].id = DecStr(now)
    /\ configurations[1].id \notin ImportIds
    /\ configurations[1].useAssistantApi # configurations[2].useAssistantApi

====
